---------------------------- MODULE Spec2Model ----------------------------
(***************************************************************************)
(* A model of tmng (src/src/tmng.py): the tool registry, its YAML config   *)
(* file, the symlink directories startup/ and tool/, the shell fragment    *)
(* shell.conf and the shell init files.                                    *)
(*                                                                         *)
(* Text that the code inspects character by character (alias, name, group, *)
(* description) is a sequence of one-character strings.  Filesystem paths  *)
(* of tools are opaque strings whose expansion and resolution are given by *)
(* the filesystem layout below.  An Optional[str] is a set: {} is None and *)
(* {s} is the string s.                                                    *)
(***************************************************************************)
EXTENDS Integers, Sequences, FiniteSets, TLC

(***************************************************************************)
(* Bounds of the model.                                                    *)
(***************************************************************************)
MaxTools == 2
MaxToolsFault == 1

(***************************************************************************)
(* Characters and strings.                                                 *)
(***************************************************************************)
LowerLetters == <<"a","b","c","d","e","f","g","h","i","j","k","l","m",
                  "n","o","p","q","r","s","t","u","v","w","x","y","z">>
UpperLetters == <<"A","B","C","D","E","F","G","H","I","J","K","L","M",
                  "N","O","P","Q","R","S","T","U","V","W","X","Y","Z">>
Digits == <<"0","1","2","3","4","5","6","7","8","9">>

Range(s) == { s[i] : i \in DOMAIN s }

\* the characters matched by [a-zA-Z0-9]
AlnumChars == Range(LowerLetters) \cup Range(UpperLetters) \cup Range(Digits)

\* the characters str.strip() removes (those the model's inputs use)
Whitespace == {" ", "\t", "\n"}

\* the characters refused by the alias prompt's validator
BadAliasChars == {"/", "\\", ":", "?", "*", "\"", "<", ">", "|"}

\* str.lower() on one character
LowerChar(c) ==
    IF \E i \in DOMAIN UpperLetters : UpperLetters[i] = c
    THEN LowerLetters[CHOOSE i \in DOMAIN UpperLetters : UpperLetters[i] = c]
    ELSE c

Lower(s) == [i \in DOMAIN s |-> LowerChar(s[i])]

RECURSIVE LStrip(_)
LStrip(s) == IF s # <<>> /\ Head(s) \in Whitespace THEN LStrip(Tail(s)) ELSE s

RECURSIVE RStrip(_)
RStrip(s) ==
    IF s # <<>> /\ s[Len(s)] \in Whitespace
    THEN RStrip(SubSeq(s, 1, Len(s) - 1))
    ELSE s

\* str.strip()
Strip(s) == RStrip(LStrip(s))

\* str(n) for a natural number n
RECURSIVE ToDecimal(_)
ToDecimal(n) ==
    IF n < 10 THEN <<Digits[n + 1]>>
    ELSE ToDecimal(n \div 10) \o <<Digits[(n % 10) + 1]>>

\* whether seq p occurs in seq s as a contiguous run ("p in s" on strings)
Contains(s, p) ==
    \E i \in 0..(Len(s) - Len(p)) : SubSeq(s, i + 1, i + Len(p)) = p

(***************************************************************************)
(* Optional values.                                                        *)
(***************************************************************************)
None == {}
Some(s) == {s}
IsNone(o) == o = {}
TheValue(o) == CHOOSE s \in o : TRUE

\* the text "None", the sentinel to_dict writes for an absent group
NoneText == <<"N","o","n","e">>

(***************************************************************************)
(* Tool records and their dictionary form (class Tool).                    *)
(***************************************************************************)
Category_STARTUP == "startup"
Category_TOOL == "tool"

Tool(name, alias, category, group, path, description, enabled) ==
    [name |-> name, alias |-> alias, category |-> category, group |-> group,
     path |-> path, description |-> description, enabled |-> enabled]

\* Tool.to_dict with a bug: an absent group is written as the empty text
to_dict_EmptyGroup(tool) ==
    [name |-> tool.name, alias |-> tool.alias, category |-> tool.category,
     group |-> IF IsNone(tool.group) THEN <<>> ELSE TheValue(tool.group),
     path |-> tool.path, description |-> tool.description,
     enabled |-> tool.enabled]

\* Tool.to_dict: every key is written; an absent group becomes "None"
to_dict(tool) ==
    [name |-> tool.name, alias |-> tool.alias, category |-> tool.category,
     group |-> IF IsNone(tool.group) THEN NoneText ELSE TheValue(tool.group),
     path |-> tool.path, description |-> tool.description,
     enabled |-> tool.enabled]

\* dict.get(key, default)
DictGet(data, key, default) ==
    IF key \in DOMAIN data THEN data[key] ELSE default

\* Tool.from_dict with a bug: a record without "enabled" loads as disabled
from_dict_DisabledDefault(data) ==
    LET g == IF "group" \in DOMAIN data THEN Some(data["group"]) ELSE None
        group == IF g = Some(NoneText) THEN None ELSE g
    IN  Tool(data["name"], data["alias"], data["category"], group,
             DictGet(data, "path", ""), DictGet(data, "description", <<>>),
             DictGet(data, "enabled", FALSE))

\* Tool.from_dict: name, alias and category are required (KeyError without
\* them, see FromDictRaises); group "None" or missing is None
from_dict(data) ==
    LET g == IF "group" \in DOMAIN data THEN Some(data["group"]) ELSE None
        group == IF g = Some(NoneText) THEN None ELSE g
    IN  Tool(data["name"], data["alias"], data["category"], group,
             DictGet(data, "path", ""), DictGet(data, "description", <<>>),
             DictGet(data, "enabled", TRUE))

FromDictRaises(data) == ~ ({"name", "alias", "category"} \subseteq DOMAIN data)


(***************************************************************************)
(* The filesystem outside the project: the tool files a record's path may  *)
(* name.  "~/x.sh" is below the home directory, "/opt/link" is a symlink   *)
(* to "/opt/y".  The variable files holds the real files that exist now.   *)
(***************************************************************************)
RealFiles == {"/home/u/x.sh", "/opt/y"}
PathInputs == {"~/x.sh", "/opt/link"}

\* str.strip() on a path text: "" and blank texts give ""
PathStrip(p) == IF p \in {"", " "} THEN "" ELSE p

\* Path.expanduser()
ExpandUser(p) == IF p = "~/x.sh" THEN "/home/u/x.sh" ELSE p

\* Path.expanduser() raises RuntimeError ("Could not determine home
\* directory") for "~name/..." when there is no user of that name
ExpandUserRaises(p) == p = "~nosuch/x"

\* Path.resolve(): absolute, symlinks followed
Resolve(p) == IF p = "/opt/link" THEN "/opt/y" ELSE p

\* Path.exists(): follows symlinks
PathExists(p, fs) == Resolve(p) \in fs

(***************************************************************************)
(* The managed directories startup/ and tool/: a function from entry name  *)
(* to what is there.  ".." is the parent directory in every directory.     *)
(***************************************************************************)
DotDot == <<".", ".">>
ValidAliases == { <<"a","-">>, <<"a","_">>, DotDot }
FileNames == ValidAliases

NoEntry == [kind |-> "none", target |-> ""]
Symlink(t) == [kind |-> "link", target |-> t]
RegularFile == [kind |-> "file", target |-> ""]
Directory == [kind |-> "dir", target |-> ""]

EmptyDir == [n \in FileNames |-> IF n = DotDot THEN Directory ELSE NoEntry]

(***************************************************************************)
(* Console output: the messages an operation printed.                      *)
(***************************************************************************)
Msg(level, what, alias, path, n) ==
    [level |-> level, what |-> what, alias |-> alias, path |-> path, n |-> n]

(***************************************************************************)
(* Faults the environment may inject into one operation: the I/O call that *)
(* raises.  "none" is an operation in which every call succeeds.           *)
(***************************************************************************)
NoFault == "none"
Faults == {"none", "cfg_open", "cfg_dump_empty", "cfg_dump_partial",
           "mkdir", "shell_conf"}

(***************************************************************************)
(* The config file.                                                        *)
(***************************************************************************)
NoData == [version |-> "", tools |-> <<>>]
AbsentFile == [kind |-> "absent", data |-> NoData]
EmptyFile == [kind |-> "empty", data |-> NoData]
\* a text that safe_load refuses: a dump cut short, or two dumps mixed
PartialFile == [kind |-> "partial", data |-> NoData]
\* a text that safe_load reads as something that is no dictionary (a word,
\* a list): config_data.get raises AttributeError
ScalarFile == [kind |-> "scalar", data |-> NoData]
\* a text that safe_load reads as an empty list or another empty value:
\* "or {}" makes it an empty dictionary
EmptyListFile == [kind |-> "empty_list", data |-> NoData]
\* a text that safe_load reads as a dictionary without the key "tools":
\* config_data.get("tools", []) gives the empty list
NoToolsFile == [kind |-> "no_tools", data |-> NoData]
YamlFile(data) == [kind |-> "yaml", data |-> data]

\* the dictionary save_config dumps (yaml.dump keeps the key order and
\* safe_load gives back the same texts and booleans)
ConfigData(ts) ==
    [version |-> "1.0", tools |-> [i \in DOMAIN ts |-> to_dict(ts[i])]]

(***************************************************************************)
(* update_symlinks.  st is [startup, tool, console, raised].               *)
(***************************************************************************)
\* the clearing loop with a bug: no symlink is unlinked
ClearSymlinksKeepStale(dir) == dir

\* the body of the clearing loop with a bug: the symlink is left in place
UnlinkIfSymlinkNever(entry) == entry

\* the body of the clearing loop with a bug: regular files are unlinked too
UnlinkIfSymlinkOrFile(entry) ==
    IF entry.kind \in {"link", "file"} THEN NoEntry ELSE entry

\* the body of the clearing loop (lines 215-219), for one directory entry
UnlinkIfSymlink(entry) == IF entry.kind = "link" THEN NoEntry ELSE entry

\* "Clear existing symlinks" for one directory: every symlink is unlinked
ClearSymlinks(dir) == [n \in DOMAIN dir |-> UnlinkIfSymlink(dir[n])]

\* the record is passed over by the "Create new symlinks" loop (lines
\* 224-237): disabled, no path, or a path that does not exist
LinkSkipped(tool, fs) ==
    \/ ~ tool.enabled
    \/ PathStrip(tool.path) = ""
    \/ ~ PathExists(ExpandUser(PathStrip(tool.path)), fs)

\* what the loop prints when it passes over the record
SkipConsole(tool, fs) ==
    IF tool.enabled /\ PathStrip(tool.path) # ""
       /\ ~ PathExists(ExpandUser(PathStrip(tool.path)), fs)
    THEN <<Msg("warning", "path missing", <<>>,
               ExpandUser(PathStrip(tool.path)), 0)>>
    ELSE <<>>

ErrorCreating(tool) == Msg("error", "creating symlink", tool.alias, "", 0)

\* line 245: symlink_path.exists() or symlink_path.is_symlink()
SlotOccupied(occupant) == occupant.kind # "none"

\* lines 246-250: what occupies the slot is unlinked; unlink() raises for a
\* directory, and for a slot that is empty by now
UnlinkSlot(occupant) ==
    IF occupant.kind \in {"dir", "none"}
    THEN [raised |-> TRUE, entry |-> occupant]
    ELSE [raised |-> FALSE, entry |-> NoEntry]

\* line 253: symlink_to raises FileExistsError when the slot is occupied
SymlinkTo(occupant, target) ==
    IF occupant.kind # "none" THEN [raised |-> TRUE, entry |-> occupant]
    ELSE [raised |-> FALSE, entry |-> Symlink(target)]

\* one pass of the "Create new symlinks" loop, for one record
LinkTool(tool, st, fs) ==
    IF LinkSkipped(tool, fs)
    THEN [st EXCEPT !.console = @ \o SkipConsole(tool, fs)]
    ELSE
    LET in_startup == tool.category = Category_STARTUP
        occupant == IF in_startup THEN st.startup[tool.alias]
                    ELSE st.tool[tool.alias]
    IN  IF SlotOccupied(occupant) /\ UnlinkSlot(occupant).raised
        THEN \* caught at line 261
             [st EXCEPT !.console = Append(@, ErrorCreating(tool))]
        ELSE \* the slot is empty now
             LET m == SymlinkTo(NoEntry,
                                Resolve(ExpandUser(PathStrip(tool.path))))
             IN  IF m.raised
                 THEN [st EXCEPT !.console = Append(@, ErrorCreating(tool))]
                 ELSE IF in_startup
                 THEN [st EXCEPT !.startup[tool.alias] = m.entry]
                 ELSE [st EXCEPT !.tool[tool.alias] = m.entry]

\* lines 224-235 run outside the try of lines 243-262: expanduser() raising
\* for an enabled record with a path leaves the loop and update_symlinks
PathRaises(tool) ==
    /\ tool.enabled
    /\ PathStrip(tool.path) # ""
    /\ ExpandUserRaises(PathStrip(tool.path))

\* the "Create new symlinks" loop from record i on
RECURSIVE LinkTools(_, _, _, _)
LinkTools(ts, i, st, fs) ==
    IF i > Len(ts) THEN st
    ELSE IF PathRaises(ts[i]) THEN [st EXCEPT !.raised = TRUE]
    ELSE LinkTools(ts, i + 1, LinkTool(ts[i], st, fs), fs)

\* update_symlinks: [raised, startup, tool, console]
update_symlinks(ts, startup, tool, fs, fault) ==
    IF fault = "mkdir"
    THEN [raised |-> TRUE, startup |-> startup, tool |-> tool, console |-> <<>>]
    ELSE LET st == LinkTools(ts, 1,
                       [startup |-> ClearSymlinks(startup),
                        tool |-> ClearSymlinks(tool),
                        console |-> <<>>, raised |-> FALSE], fs)
         IN  [raised |-> st.raised, startup |-> st.startup, tool |-> st.tool,
              console |-> st.console]

(***************************************************************************)
(* update_shell_conf and _update_shell_init_files.  A path or a file text  *)
(* is a sequence of tokens whose concatenation is the text.                *)
(***************************************************************************)
ProjectRoot == <<"/srv", "/tmng">>

ShellConfPath(root) == root \o <<"/shell.conf">>

\* the text written to shell.conf (lines 278-294)
ShellConfText(root) ==
    <<"# tmng shell configuration\n", "export PATH=\"$PATH:">>
    \o root \o <<"/bin", ":">> \o root \o <<"/tool", ":">>
    \o root \o <<"/startup", "\"\n", "if [ -d \"">> \o root
    \o <<"/startup", "\" ]; then\n  for script in ">> \o root
    \o <<"/startup", "/*; do ... done\nfi\n">>

SourceLine(root) == <<"\nsource \"">> \o ShellConfPath(root) \o <<"\"\n">>

\* one pass of the loop of _update_shell_init_files with a bug: the text is
\* appended without looking for the path
PatchInitFileAlways(file, root) ==
    IF IsNone(file) THEN [file |-> file, updated |-> FALSE]
    ELSE [file |-> Some(TheValue(file) \o SourceLine(root)), updated |-> TRUE]

\* one pass of the loop with a bug: a file that holds any source line of
\* tmng is passed over
PatchInitFileAnyLine(file, root) ==
    IF IsNone(file) THEN [file |-> file, updated |-> FALSE]
    ELSE IF Contains(TheValue(file), <<"/shell.conf">>)
         THEN [file |-> file, updated |-> FALSE]
         ELSE [file |-> Some(TheValue(file) \o SourceLine(root)),
               updated |-> TRUE]

\* one pass of the loop with a bug: the file is opened with 'w', which
\* creates it when it is absent and drops what it held
PatchInitFileRewrite(file, root) ==
    IF ~ IsNone(file) /\ Contains(TheValue(file), ShellConfPath(root))
    THEN [file |-> file, updated |-> FALSE]
    ELSE [file |-> Some(SourceLine(root)), updated |-> TRUE]

\* one pass of the loop of _update_shell_init_files: [file, updated]
PatchInitFile(file, root) ==
    IF IsNone(file) THEN [file |-> file, updated |-> FALSE]
    ELSE IF Contains(TheValue(file), ShellConfPath(root))
         THEN [file |-> file, updated |-> FALSE]
         ELSE [file |-> Some(TheValue(file) \o SourceLine(root)),
               updated |-> TRUE]

\* _update_shell_init_files: [bashrc, zshrc, console]
update_shell_init_files(bashrc, zshrc, root) ==
    LET b == PatchInitFile(bashrc, root)
        z == PatchInitFile(zshrc, root)
    IN  [bashrc |-> b.file, zshrc |-> z.file,
         console |->
            (IF b.updated THEN <<Msg("ok", "updated .bashrc", <<>>, "", 0)>>
             ELSE <<>>)
            \o (IF z.updated THEN <<Msg("ok", "updated .zshrc", <<>>, "", 0)>>
                ELSE <<>>)]

\* update_shell_conf: [shell_conf, bashrc, zshrc, console, steps]
update_shell_conf(shell_conf, bashrc, zshrc, root, fault) ==
    IF fault = "shell_conf"
    THEN [shell_conf |-> shell_conf, bashrc |-> bashrc, zshrc |-> zshrc,
          console |-> <<Msg("error", "updating shell.conf", <<>>, "", 0)>>,
          steps |-> <<>>]
    ELSE LET i == update_shell_init_files(bashrc, zshrc, root)
         IN  [shell_conf |->
                 Some([text |-> ShellConfText(root), executable |-> TRUE]),
              bashrc |-> i.bashrc, zshrc |-> i.zshrc, console |-> i.console,
              steps |-> <<"shell_conf", "patch">>]

(***************************************************************************)
(* save_config.  d is the disk: [cfg, startup, tool, shell_conf, bashrc,   *)
(* zshrc].  The result is [disk, console, steps]: steps lists the steps of *)
(* the pipeline that ran, in the order they ran.                           *)
(***************************************************************************)
ErrorSaving == Msg("error", "saving config", <<>>, "", 0)

\* save_config with a bug: the shell configuration is not updated
save_config_NoShell(ts, d, fs, root, fault) ==
    LET written == [d EXCEPT !.cfg = YamlFile(ConfigData(ts))]
        sl == update_symlinks(ts, d.startup, d.tool, fs, fault)
    IN  [disk |-> [written EXCEPT !.startup = sl.startup, !.tool = sl.tool],
         console |-> sl.console, steps |-> <<"write", "symlinks">>]

save_config(ts, d, fs, root, fault) ==
    IF fault = "cfg_open"
    THEN \* open(..., 'w') raises: nothing is written
         [disk |-> d, console |-> <<ErrorSaving>>, steps |-> <<>>]
    ELSE IF fault \in {"cfg_dump_empty", "cfg_dump_partial"}
    THEN \* the file was truncated by open; the dump raises
         [disk |-> [d EXCEPT !.cfg = IF fault = "cfg_dump_empty"
                                     THEN EmptyFile ELSE PartialFile],
          console |-> <<ErrorSaving>>, steps |-> <<>>]
    ELSE
    LET written == [d EXCEPT !.cfg = YamlFile(ConfigData(ts))]
        sl == update_symlinks(ts, d.startup, d.tool, fs, fault)
    IN  IF sl.raised
        THEN [disk |-> [written EXCEPT !.startup = sl.startup,
                                       !.tool = sl.tool],
              console |-> sl.console \o <<ErrorSaving>>,
              steps |-> <<"write">>]
        ELSE LET linked == [written EXCEPT !.startup = sl.startup,
                                           !.tool = sl.tool]
                 sc == update_shell_conf(d.shell_conf, d.bashrc, d.zshrc,
                                         root, fault)
             IN  [disk |-> [linked EXCEPT !.shell_conf = sc.shell_conf,
                                          !.bashrc = sc.bashrc,
                                          !.zshrc = sc.zshrc],
                  console |-> sl.console \o sc.console,
                  steps |-> <<"write", "symlinks">> \o sc.steps]

(***************************************************************************)
(* load_config: [tools, disk, console, steps].                             *)
(***************************************************************************)
\* _create_default_config with a bug: the empty registry is not saved
create_default_config_NoSave(d, fs, root, fault) ==
    [tools |-> <<>>, disk |-> d, console |-> <<>>, steps |-> <<>>]

\* _create_default_config
create_default_config(d, fs, root, fault) ==
    LET r == save_config(<<>>, d, fs, root, fault)
    IN  [tools |-> <<>>, disk |-> r.disk, console |-> r.console,
         steps |-> r.steps]

\* what load_config cannot read: safe_load raises, or gives no dictionary,
\* or from_dict raises KeyError for a record
Unloadable(file) ==
    \/ file.kind \in {"partial", "scalar"}
    \/ /\ file.kind = "yaml"
       /\ \E i \in DOMAIN file.data.tools : FromDictRaises(file.data.tools[i])

\* what load_config reads as no records at all: safe_load gives None or
\* another empty value, or a dictionary without "tools"
ReadsAsEmpty(file) == file.kind \in {"empty", "empty_list", "no_tools"}

\* the key whose lookup raises KeyError in from_dict (lines 84-86)
MissingKey(data) ==
    IF "name" \notin DOMAIN data THEN "name"
    ELSE IF "alias" \notin DOMAIN data THEN "alias"
    ELSE "category"

\* what the except clauses of lines 171-176 print: "Error loading config"
\* for a YAMLError, "Unexpected error loading config" with the text of the
\* exception for every other one
LoadError(file) ==
    IF file.kind = "partial"
    THEN Msg("error", "loading config", <<>>, "", 0)
    ELSE IF file.kind = "scalar"
    THEN Msg("error", "unexpected error loading config", <<>>, "get", 0)
    ELSE LET bad == { i \in DOMAIN file.data.tools :
                         FromDictRaises(file.data.tools[i]) }
             first == CHOOSE i \in bad : \A k \in bad : i <= k
         IN  Msg("error", "unexpected error loading config", <<>>,
                 MissingKey(file.data.tools[first]), 0)

\* load_config with a bug: the registry is emptied but the unreadable file
\* is left as it is
load_config_KeepsUnreadable(d, fs, root, fault) ==
    IF d.cfg.kind = "absent"
    THEN LET r == create_default_config(d, fs, root, fault)
         IN  [r EXCEPT !.console =
                 <<Msg("warning", "config not found", <<>>, "", 0)>> \o @]
    ELSE IF ReadsAsEmpty(d.cfg)
    THEN [tools |-> <<>>, disk |-> d, console |-> <<>>, steps |-> <<>>]
    ELSE IF Unloadable(d.cfg)
    THEN [tools |-> <<>>, disk |-> d,
          console |-> <<LoadError(d.cfg)>>,
          steps |-> <<>>]
    ELSE [tools |-> [i \in DOMAIN d.cfg.data.tools |->
                        from_dict(d.cfg.data.tools[i])],
          disk |-> d, console |-> <<>>, steps |-> <<>>]

\* load_config with a bug: the registry that was read is saved at once, so
\* the symlinks are rebuilt by the load
load_config_Reconciles(d, fs, root, fault) ==
    IF d.cfg.kind = "absent"
    THEN LET r == create_default_config(d, fs, root, fault)
         IN  [r EXCEPT !.console =
                 <<Msg("warning", "config not found", <<>>, "", 0)>> \o @]
    ELSE IF ReadsAsEmpty(d.cfg)
    THEN [tools |-> <<>>, disk |-> d, console |-> <<>>, steps |-> <<>>]
    ELSE IF Unloadable(d.cfg)
    THEN LET r == create_default_config(d, fs, root, fault)
         IN  [r EXCEPT !.console = <<LoadError(d.cfg)>> \o @]
    ELSE LET ts == [i \in DOMAIN d.cfg.data.tools |->
                       from_dict(d.cfg.data.tools[i])]
             r == save_config(ts, d, fs, root, fault)
         IN  [tools |-> ts, disk |-> r.disk, console |-> <<>>,
              steps |-> <<>>]

\* load_config with a bug: a record that lacks a required key is left out
\* and the other records are loaded
load_config_SkipsBadRecords(d, fs, root, fault) ==
    IF d.cfg.kind = "absent"
    THEN LET r == create_default_config(d, fs, root, fault)
         IN  [r EXCEPT !.console =
                 <<Msg("warning", "config not found", <<>>, "", 0)>> \o @]
    ELSE IF ReadsAsEmpty(d.cfg)
    THEN [tools |-> <<>>, disk |-> d, console |-> <<>>, steps |-> <<>>]
    ELSE IF d.cfg.kind \in {"partial", "scalar"}
    THEN LET r == create_default_config(d, fs, root, fault)
         IN  [r EXCEPT !.console = <<LoadError(d.cfg)>> \o @]
    ELSE LET Good(data) == ~ FromDictRaises(data)
             good == SelectSeq(d.cfg.data.tools, Good)
         IN  [tools |-> [i \in DOMAIN good |-> from_dict(good[i])],
              disk |-> d, console |-> <<>>, steps |-> <<>>]

load_config(d, fs, root, fault) ==
    IF d.cfg.kind = "absent"
    THEN LET r == create_default_config(d, fs, root, fault)
         IN  [r EXCEPT !.console =
                 <<Msg("warning", "config not found", <<>>, "", 0)>> \o @]
    ELSE IF ReadsAsEmpty(d.cfg)
    THEN \* "or {}" and the default of get: no record, nothing raised
         [tools |-> <<>>, disk |-> d, console |-> <<>>, steps |-> <<>>]
    ELSE IF Unloadable(d.cfg)
    THEN \* except yaml.YAMLError / except Exception
         LET r == create_default_config(d, fs, root, fault)
         IN  [r EXCEPT !.console = <<LoadError(d.cfg)>> \o @]
    ELSE [tools |-> [i \in DOMAIN d.cfg.data.tools |->
                        from_dict(d.cfg.data.tools[i])],
          disk |-> d, console |-> <<>>, steps |-> <<>>]

(***************************************************************************)
(* The state.                                                              *)
(***************************************************************************)
VARIABLES
    mode,        \* "off": no process; else the command the process runs
    tools,       \* TmngConfig.tools of the running process
    cfgFile,     \* tools.yaml
    startup_dir, \* <root>/startup
    tool_dir,    \* <root>/tool
    bin_dir,     \* <root>/bin
    shell_conf,  \* <root>/shell.conf: None while it does not exist
    bashrc,      \* ~/.bashrc: None while it does not exist
    zshrc,       \* ~/.zshrc
    files,       \* the real tool files that exist
    last,        \* the last operation that wrote or printed: what it printed
                 \* and the steps of save_config it ran
    instances,   \* two processes that save at the same time: where each is
                 \* in save_config, and the order in which they finished
    prompt,      \* the handler the process is in and the prompt or statement
                 \* it is at, what the user answered so far, and how many
                 \* interrupts were delivered
    discovery    \* the command line and surroundings of a process that looks
                 \* for its project root, and the root it found

vars == <<mode, tools, cfgFile, startup_dir, tool_dir, bin_dir, shell_conf,
          bashrc, zshrc, files, last, instances, prompt, discovery>>

Disk == [cfg |-> cfgFile, startup |-> startup_dir, tool |-> tool_dir,
         bin |-> bin_dir, shell_conf |-> shell_conf, bashrc |-> bashrc,
         zshrc |-> zshrc]

SetDisk(d) ==
    /\ cfgFile' = d.cfg
    /\ startup_dir' = d.startup
    /\ tool_dir' = d.tool
    /\ bin_dir' = d.bin
    /\ shell_conf' = d.shell_conf
    /\ bashrc' = d.bashrc
    /\ zshrc' = d.zshrc

Last(op, alias, console, steps) ==
    [op |-> op, alias |-> alias, console |-> console, steps |-> steps]

\* the processes of the concurrent runs
Instances == {1, 2}

\* one process: pc is the call of save_config it makes next, tools its
\* registry, todo the entries its clearing loop still has to visit, i the
\* record its linking loop is at
Instance(pc, ts, todo, i, console) ==
    [pc |-> pc, tools |-> ts, todo |-> todo, i |-> i, console |-> console]

NoInstances ==
    [proc |-> [p \in Instances |-> Instance("none", <<>>, {}, 0, <<>>)],
     finished |-> <<>>, overlap |-> FALSE]

\* what the user answered in the handler so far: the tool or group chosen,
\* the group and the record of an add, the deleted_count of _delete_group,
\* the answer "yes" to a confirm prompt
NoArg == [name |-> <<>>, group |-> None, tool |-> <<>>, count |-> 0,
          confirm |-> FALSE]

\* a process that is in no handler: tmng -l waits at its menu, tmng -a at
\* its group prompt
NoPrompt == [op |-> "none", at |-> "idle", arg |-> NoArg, interrupts |-> 0]

\* a process whose project root is not looked at
NoDiscovery == [at |-> "none"]

(***************************************************************************)
(* What the user may type.                                                 *)
(***************************************************************************)
AliasInputs == ValidAliases \cup { <<"a", "-", " ">>, <<"a", "/">>, <<" ">> }
GroupInputs == { <<>>, <<"d", "b">>, <<"d", "b", " ">>, <<"N", "O", "N", "E">> }
DescriptionInputs == { <<"d", " ">> }
Categories == {Category_STARTUP, Category_TOOL}

\* the real file the environment creates and removes
VolatileFiles == {"/home/u/x.sh"}

\* the text an init file may hold before tmng touches it
InitFileTexts == { <<"export EDITOR=vi\n">> }

(***************************************************************************)
(* _add_single_tool.                                                       *)
(***************************************************************************)
\* the validate function of the alias prompt (line 861)
AliasValid(x) ==
    Strip(x) # <<>> /\ \A i \in DOMAIN x : x[i] \notin BadAliasChars

\* re.sub(r'[^a-zA-Z0-9]', '_', alias)
Sanitize(alias) ==
    [i \in DOMAIN alias |-> IF alias[i] \in AlnumChars THEN alias[i] ELSE "_"]

\* the de-duplication with a bug: the name is used as it is
UniqueNameNoCheck(name, original_name, counter, existing_names) == name

\* the while loop with a bug: the counter starts at 2
UniqueNameFromTwo(name, original_name, counter, existing_names) ==
    IF name \notin existing_names THEN name
    ELSE LET suffixed(k) == original_name \o <<"_">> \o ToDecimal(k)
             k == CHOOSE k \in 2..(Cardinality(existing_names) + 2) :
                    /\ suffixed(k) \notin existing_names
                    /\ \A j \in 2..(k - 1) : suffixed(j) \in existing_names
         IN  suffixed(k)

\* the while loop of lines 890-892
RECURSIVE UniqueName(_, _, _, _)
UniqueName(name, original_name, counter, existing_names) ==
    IF name \in existing_names
    THEN UniqueName(original_name \o <<"_">> \o ToDecimal(counter),
                    original_name, counter + 1, existing_names)
    ELSE name

\* the group prompt of add_tool_interactive (lines 772-774)
GroupName(raw) ==
    LET g == Strip(raw)
    IN  IF g = <<>> THEN None
        ELSE IF Lower(g) = <<"n", "o", "n", "e">> THEN None
        ELSE Some(g)

AliasTaken(ts, alias) == \E i \in DOMAIN ts : ts[i].alias = alias

\* the record _add_single_tool builds from the answers
NewTool(ts, group_name, category, path, alias_raw, description_raw) ==
    LET alias == Strip(alias_raw)
        name == Sanitize(alias)
        existing_names == { ts[i].name : i \in DOMAIN ts }
    IN  Tool(UniqueName(name, name, 1, existing_names), alias, category,
             group_name, path, Strip(description_raw), TRUE)

(***************************************************************************)
(* The handlers.  F is the set of faults the environment may inject.       *)
(***************************************************************************)
\* TmngManager.__init__: the constructor loads the config
Start(F) ==
    /\ mode = "off"
    /\ \E m \in {"list", "add"}, fault \in F :
         \E r \in {load_config(Disk, files, ProjectRoot, fault)} :
             /\ mode' = m
             /\ tools' = r.tools
             /\ SetDisk(r.disk)
             /\ last' = IF r.console = <<>> THEN last
                        ELSE Last("load_default", <<>>, r.console, r.steps)
    /\ UNCHANGED <<files, instances,
                   prompt, discovery>>

\* the process ends
Exit ==
    /\ mode # "off"
    /\ prompt.at = "idle"
    /\ mode' = "off"
    /\ tools' = <<>>
    /\ UNCHANGED <<cfgFile, startup_dir, tool_dir, shell_conf, bashrc, zshrc,
                   files, last, instances,
                   bin_dir, prompt, discovery>>

\* add_tool_interactive, one pass of the inner loop with a tool returned
AddTool(F, limit) ==
    /\ mode = "add"
    /\ Len(tools) < limit
    /\ \E group_raw \in GroupInputs, category \in Categories,
          path \in PathInputs, alias_raw \in AliasInputs,
          description_raw \in DescriptionInputs, fault \in F :
         /\ AliasValid(alias_raw)
         /\ PathExists(ExpandUser(PathStrip(path)), files)
         /\ ~ AliasTaken(tools, Strip(alias_raw))
         /\ LET tool == NewTool(tools, GroupName(group_raw), category, path,
                                alias_raw, description_raw)
                ts == Append(tools, tool)
            IN  \E r \in {save_config(ts, Disk, files, ProjectRoot, fault)} :
                /\ tools' = ts
                /\ SetDisk(r.disk)
                /\ last' = Last("add", tool.alias,
                                r.console \o <<Msg("ok", "added", tool.alias, "", 0)>>,
                                r.steps)
    /\ UNCHANGED <<mode, files, instances,
                   prompt, discovery>>

\* the first record named tool_name (the loop of lines 581-586 breaks there)
FirstNamed(ts, tool_name) ==
    CHOOSE j \in DOMAIN ts :
        /\ ts[j].name = tool_name
        /\ \A k \in DOMAIN ts : ts[k].name = tool_name => j <= k

\* line 583 with a bug: a tool that is switched off is dropped from the list
ToggleRecordDropsDisabled(ts, j) ==
    IF ts[j].enabled
    THEN [k \in 1..(Len(ts) - 1) |-> IF k < j THEN ts[k] ELSE ts[k + 1]]
    ELSE [ts EXCEPT ![j].enabled = TRUE]

\* tool.enabled = not tool.enabled (line 583) for the record found
ToggleRecord(ts, j) == [ts EXCEPT ![j].enabled = ~ @]

\* _toggle_tool_status with the tool of position i chosen: what it writes
ToggleToolAt(i, F) ==
    /\ mode = "list"
    /\ \E fault \in F :
         LET j == FirstNamed(tools, tools[i].name)
             ts == ToggleRecord(tools, j)
         IN  \E r \in {save_config(ts, Disk, files, ProjectRoot, fault)} :
             /\ tools' = ts
             /\ SetDisk(r.disk)
             /\ last' = Last("toggle", tools[j].alias,
                             <<Msg("ok", IF ~ tools[j].enabled THEN "enabled"
                                         ELSE "disabled", tools[j].alias, "", 0)>>
                             \o r.console, r.steps)
    /\ UNCHANGED <<mode, files, instances, prompt>>

\* _toggle_tool_status with a tool chosen
ToggleTool(F) ==
    /\ \E i \in DOMAIN tools : ToggleToolAt(i, F)
    /\ UNCHANGED discovery

\* the groups offered by the group prompts: "if tool.group" drops None and ""
Groups(ts) ==
    { TheValue(ts[i].group) :
        i \in { k \in DOMAIN ts : ts[k].group # None /\ ts[k].group # Some(<<>>) } }

InGroup(ts, group_name) == { i \in DOMAIN ts : ts[i].group = Some(group_name) }

\* the loop of lines 620-623 with a bug: it stops at the first record of
\* the group
ToggleGroupRecordsFirstOnly(ts, group_name) ==
    [i \in DOMAIN ts |->
        IF ts[i].group = Some(group_name)
           /\ \A k \in 1..(i - 1) : ts[k].group # Some(group_name)
        THEN [ts[i] EXCEPT !.enabled = ~ @]
        ELSE ts[i]]

\* the loop of lines 620-623 with a bug: every record of the group is
\* switched on
ToggleGroupRecordsSwitchOn(ts, group_name) ==
    [i \in DOMAIN ts |->
        IF ts[i].group = Some(group_name)
        THEN [ts[i] EXCEPT !.enabled = TRUE]
        ELSE ts[i]]

\* the loop of lines 620-623: every record of the group is flipped
ToggleGroupRecords(ts, group_name) ==
    [i \in DOMAIN ts |->
        IF ts[i].group = Some(group_name)
        THEN [ts[i] EXCEPT !.enabled = ~ @]
        ELSE ts[i]]

\* _toggle_group_status with the group group_name chosen: what it writes
ToggleGroupOf(group_name, F) ==
    /\ mode = "list"
    /\ \E fault \in F :
         LET ts == ToggleGroupRecords(tools, group_name)
             toggled_count == Cardinality(InGroup(tools, group_name))
         IN  \E r \in {save_config(ts, Disk, files, ProjectRoot, fault)} :
             /\ tools' = ts
             /\ SetDisk(r.disk)
             /\ last' = Last("toggle_group", group_name,
                             <<Msg("ok", "toggled group", group_name, "",
                                   toggled_count)>> \o r.console, r.steps)
    /\ UNCHANGED <<mode, files, instances, prompt>>

\* _toggle_group_status with a group chosen
ToggleGroup(F) ==
    /\ \E group_name \in Groups(tools) : ToggleGroupOf(group_name, F)
    /\ UNCHANGED discovery

\* SelectSeq for a test given as a set of indices to keep
RECURSIVE Keep(_, _, _)
Keep(ts, i, keep) ==
    IF i > Len(ts) THEN <<>>
    ELSE (IF i \in keep THEN <<ts[i]>> ELSE <<>>) \o Keep(ts, i + 1, keep)

\* line 686: [t for t in self.config.tools if t.name != tool_name]
DeleteNamed(ts, tool_name) ==
    Keep(ts, 1, { k \in DOMAIN ts : ts[k].name # tool_name })

\* line 737 with a bug: the records that have no group are dropped as well
DeleteGroupedOrUngrouped(ts, group_name) ==
    Keep(ts, 1, { k \in DOMAIN ts : ts[k].group \notin {None, Some(group_name)} })

\* line 737: [t for t in self.config.tools if t.group != group_name]
DeleteGrouped(ts, group_name) ==
    Keep(ts, 1, DOMAIN ts \ InGroup(ts, group_name))

\* _delete_tool with a tool chosen and the deletion confirmed
DeleteTool(F) ==
    /\ mode = "list"
    /\ \E i \in DOMAIN tools, fault \in F :
         LET tool_name == tools[i].name
             ts == DeleteNamed(tools, tool_name)
         IN  \E r \in {save_config(ts, Disk, files, ProjectRoot, fault)} :
             /\ tools' = ts
             /\ SetDisk(r.disk)
             /\ last' = Last("delete", tool_name,
                             r.console \o <<Msg("ok", "deleted", tool_name, "", 0)>>,
                             r.steps)
    /\ UNCHANGED <<mode, files, instances,
                   prompt, discovery>>

\* _delete_group with a group chosen and the deletion confirmed
DeleteGroup(F) ==
    /\ mode = "list"
    /\ \E group_name \in Groups(tools), fault \in F :
         LET deleted_count == Cardinality(InGroup(tools, group_name))
             ts == DeleteGrouped(tools, group_name)
         IN  \E r \in {save_config(ts, Disk, files, ProjectRoot, fault)} :
             /\ tools' = ts
             /\ SetDisk(r.disk)
             /\ last' = Last("delete_group", group_name,
                             r.console \o <<Msg("ok", "deleted group", group_name,
                                                "", deleted_count)>>,
                             r.steps)
    /\ UNCHANGED <<mode, files, instances,
                   prompt, discovery>>

\* update_shell_config (--update-shell): the rebuild without a save,
\* [disk, console, steps].  An exception of update_symlinks is not caught
\* here and ends the process.
update_shell_config(ts, d, fs, root, fault) ==
    LET sl == update_symlinks(ts, d.startup, d.tool, fs, fault)
        sc == update_shell_conf(d.shell_conf, d.bashrc, d.zshrc, root, fault)
    IN  IF sl.raised
        THEN [disk |-> [d EXCEPT !.startup = sl.startup, !.tool = sl.tool],
              console |-> sl.console
                          \o <<Msg("error", "uncaught", <<>>, "", 0)>>,
              steps |-> <<>>]
        ELSE [disk |-> [d EXCEPT !.startup = sl.startup, !.tool = sl.tool,
                                 !.shell_conf = sc.shell_conf,
                                 !.bashrc = sc.bashrc, !.zshrc = sc.zshrc],
              console |-> sl.console \o sc.console,
              steps |-> <<"symlinks">> \o sc.steps]

\* a run of "tmng --update-shell": the constructor, update_shell_config and
\* the end of the process
UpdateShellConfig(F) ==
    /\ mode = "off"
    /\ \E fault \in F :
         \E l \in {load_config(Disk, files, ProjectRoot, fault)} :
           \E r \in {update_shell_config(l.tools, l.disk, files, ProjectRoot,
                                          fault)} :
               /\ SetDisk(r.disk)
               /\ last' = Last("update_shell", <<>>, l.console \o r.console,
                               r.steps)
    /\ UNCHANGED <<mode, tools, files, instances,
                   prompt, discovery>>

(***************************************************************************)
(* The environment: a tool file is removed or put back.                    *)
(***************************************************************************)
FileVanishes ==
    /\ \E f \in VolatileFiles \cap files : files' = files \ {f}
    /\ last' = Last("env", <<>>, <<>>, <<>>)
    /\ UNCHANGED <<mode, tools, cfgFile, startup_dir, tool_dir, shell_conf,
                   bashrc, zshrc, instances,
                   bin_dir, prompt, discovery>>

FileAppears ==
    /\ \E f \in VolatileFiles \ files : files' = files \cup {f}
    /\ last' = Last("env", <<>>, <<>>, <<>>)
    /\ UNCHANGED <<mode, tools, cfgFile, startup_dir, tool_dir, shell_conf,
                   bashrc, zshrc, instances,
                   bin_dir, prompt, discovery>>

(***************************************************************************)
(* The specifications of one process at a time.  Spec: every I/O call     *)
(* succeeds.  SpecFault: every operation may meet one fault.  SpecRecords  *)
(* and SpecConc follow below.                                              *)
(***************************************************************************)
Init ==
    /\ mode = "off"
    /\ tools = <<>>
    /\ cfgFile = AbsentFile
    /\ startup_dir = EmptyDir
    /\ tool_dir = EmptyDir
    /\ bin_dir = EmptyDir
    /\ shell_conf = None
    /\ \E t \in InitFileTexts : bashrc = Some(t)
    /\ zshrc = None
    /\ files = RealFiles
    /\ last = Last("none", <<>>, <<>>, <<>>)
    /\ instances = NoInstances
    /\ prompt = NoPrompt
    /\ discovery = NoDiscovery

Next ==
    \/ Start({NoFault})
    \/ Exit
    \/ AddTool({NoFault}, MaxTools)
    \/ ToggleTool({NoFault})
    \/ ToggleGroup({NoFault})
    \/ DeleteTool({NoFault})
    \/ DeleteGroup({NoFault})
    \/ UpdateShellConfig({NoFault})
    \/ FileVanishes
    \/ FileAppears

Spec == Init /\ [][Next]_vars

NextFault ==
    \/ Start(Faults)
    \/ Exit
    \/ AddTool(Faults, MaxToolsFault)
    \/ ToggleTool(Faults)
    \/ ToggleGroup(Faults)
    \/ DeleteTool(Faults)
    \/ DeleteGroup(Faults)
    \/ UpdateShellConfig(Faults)
    \/ FileVanishes
    \/ FileAppears

SpecFault == Init /\ [][NextFault]_vars

(***************************************************************************)
(* A record list is saved and loaded again.                                *)
(***************************************************************************)
MaxRecords == 2

RecordGroups == {None, Some(<<>>), Some(<<"d", "b">>), Some(NoneText)}
RecordPaths == {"", "~/x.sh"}

\* the alias and name of the record at position i
RecordAlias(i) ==
    IF i = 1 THEN <<"a", "-">> ELSE IF i = 2 THEN <<"a", "_">> ELSE DotDot

RecordFields == [category : Categories, group : RecordGroups,
                 path : RecordPaths, enabled : BOOLEAN]

RecordLists ==
    UNION { { [i \in 1..n |->
                 Tool(Sanitize(RecordAlias(i)), RecordAlias(i), f[i].category,
                      f[i].group, f[i].path, <<"d">>, f[i].enabled)] :
              f \in [1..n -> RecordFields] } : n \in 0..MaxRecords }

InitRecords ==
    /\ mode = "new"
    /\ tools \in RecordLists
    /\ cfgFile = AbsentFile
    /\ startup_dir = EmptyDir
    /\ tool_dir = EmptyDir
    /\ bin_dir = EmptyDir
    /\ shell_conf = None
    /\ \E t \in InitFileTexts : bashrc = Some(t)
    /\ zshrc = None
    /\ files = RealFiles
    /\ last = Last("none", <<>>, <<>>, <<>>)
    /\ instances = NoInstances
    /\ prompt = NoPrompt
    /\ discovery = NoDiscovery

\* save_config of the record list
SaveRecords ==
    /\ mode = "new"
    /\ \E r \in {save_config(tools, Disk, files, ProjectRoot, NoFault)} :
         /\ SetDisk(r.disk)
         /\ last' = Last("save", <<>>, r.console, r.steps)
    /\ mode' = "saved"
    /\ UNCHANGED <<tools, files, instances,
                   prompt, discovery>>

\* load_config of the file written
LoadRecords ==
    /\ mode = "saved"
    /\ \E l \in {load_config(Disk, files, ProjectRoot, NoFault)} :
         /\ tools' = l.tools
         /\ SetDisk(l.disk)
         /\ last' = Last("load", <<>>, l.console, l.steps)
    /\ mode' = "loaded"
    /\ UNCHANGED <<files, instances,
                   prompt, discovery>>

NextRecords ==
    \/ SaveRecords
    \/ LoadRecords

SpecRecords == InitRecords /\ [][NextRecords]_vars

(***************************************************************************)
(* Two processes save at the same time.  Each has loaded the same config   *)
(* file, changes its registry once and runs save_config; a step is one     *)
(* call of save_config that reads or writes the disk.                      *)
(***************************************************************************)
\* the registry both processes loaded
LoadedRegistries ==
    { <<>>,
      <<Tool(<<"a", "_">>, <<"a", "-">>, Category_TOOL, None, "/opt/link",
             <<"d">>, TRUE)>> }

\* what one add, toggle or delete makes of the registry
Mutations(ts) ==
    { Append(ts, NewTool(ts, None, category, path, alias_raw, <<"d">>)) :
        category \in Categories, path \in PathInputs,
        alias_raw \in { a \in ValidAliases : ~ AliasTaken(ts, a) } }
    \cup { [ts EXCEPT ![FirstNamed(ts, ts[i].name)].enabled = ~ @] :
             i \in DOMAIN ts }
    \cup { Keep(ts, 1, { k \in DOMAIN ts : ts[k].name # ts[i].name }) :
             i \in DOMAIN ts }

\* the steps of save_config between open() and the return
MidSave == {"dump", "list_startup", "clear_startup", "list_tool", "clear_tool",
            "link", "unlink", "symlink", "shell"}

\* the write of a dump into a file opened before: the text starts at offset
\* 0 and what the file holds beyond its end stays.  A config file with more
\* records is the longer text; with as many records either may be longer.
Overwrite(file, data) ==
    IF file.kind \in {"absent", "empty"} THEN {YamlFile(data)}
    ELSE IF file.kind = "yaml" /\ file.data = data THEN {YamlFile(data)}
    ELSE IF file.kind = "yaml" /\ Len(file.data.tools) < Len(data.tools)
    THEN {YamlFile(data)}
    ELSE IF file.kind = "yaml" /\ Len(file.data.tools) > Len(data.tools)
    THEN {PartialFile}
    ELSE {YamlFile(data), PartialFile}

\* directory.iterdir(): the entries there are now
Listing(dir) == { n \in DOMAIN dir : n # DotDot /\ dir[n].kind # "none" }

SetInstance(p, I) == instances' = [instances EXCEPT !.proc[p] = I]

\* the linking loop moves to record i, or the loop is over
AtRecord(I, i) ==
    IF i > Len(I.tools) THEN [I EXCEPT !.pc = "shell", !.i = 0]
    ELSE [I EXCEPT !.pc = "link", !.i = i]

\* the clearing loop of a directory starts with the listing todo
AtListing(I, pc, todo) ==
    IF todo # {} THEN [I EXCEPT !.pc = pc, !.todo = todo]
    ELSE IF pc = "clear_startup" THEN [I EXCEPT !.pc = "list_tool", !.todo = {}]
    ELSE AtRecord([I EXCEPT !.todo = {}], 1)

\* the user of process p changes the registry; save_config is called
ConcMutate(p) ==
    /\ instances.proc[p].pc = "prompt"
    /\ \E ts \in Mutations(instances.proc[p].tools) :
         SetInstance(p, [instances.proc[p] EXCEPT !.pc = "open", !.tools = ts])
    /\ UNCHANGED <<mode, tools, cfgFile, startup_dir, tool_dir, shell_conf,
                   bashrc, zshrc, files, last,
                   bin_dir, prompt, discovery>>

\* line 195: open(config_path, 'w') truncates the file
ConcOpen(p) ==
    /\ instances.proc[p].pc = "open"
    /\ cfgFile' = EmptyFile
    /\ instances' =
         [instances EXCEPT
            !.proc[p].pc = "dump",
            !.overlap = @ \/ \E q \in Instances \ {p} :
                                 instances.proc[q].pc \in MidSave]
    /\ UNCHANGED <<mode, tools, startup_dir, tool_dir, shell_conf, bashrc,
                   zshrc, files, last,
                   bin_dir, prompt, discovery>>

\* line 196: the dump reaches the file when it is closed
ConcDump(p) ==
    /\ instances.proc[p].pc = "dump"
    /\ cfgFile' \in Overwrite(cfgFile, ConfigData(instances.proc[p].tools))
    /\ SetInstance(p, [instances.proc[p] EXCEPT !.pc = "list_startup"])
    /\ UNCHANGED <<mode, tools, startup_dir, tool_dir, shell_conf, bashrc,
                   zshrc, files, last,
                   bin_dir, prompt, discovery>>

\* line 214: directory.iterdir()
ConcListDir(p) ==
    /\ instances.proc[p].pc \in {"list_startup", "list_tool"}
    /\ LET I == instances.proc[p]
       IN  IF I.pc = "list_startup"
           THEN SetInstance(p, AtListing(I, "clear_startup", Listing(startup_dir)))
           ELSE SetInstance(p, AtListing(I, "clear_tool", Listing(tool_dir)))
    /\ UNCHANGED <<mode, tools, cfgFile, startup_dir, tool_dir, shell_conf,
                   bashrc, zshrc, files, last,
                   bin_dir, prompt, discovery>>

\* lines 215-219 for one entry of the listing.  An entry that is gone is
\* passed over, or its unlink() raised and the warning is printed.
ConcClear(p) ==
    /\ instances.proc[p].pc \in {"clear_startup", "clear_tool"}
    /\ LET I == instances.proc[p]
           in_startup == I.pc = "clear_startup"
           dir == IF in_startup THEN startup_dir ELSE tool_dir
       IN  \E n \in I.todo :
             \E warned \in IF dir[n].kind = "none" THEN BOOLEAN ELSE {FALSE} :
               LET cleared == [dir EXCEPT ![n] = UnlinkIfSymlink(@)]
                   J == [I EXCEPT !.console =
                            IF warned
                            THEN Append(@, Msg("warning", "removing symlink",
                                               n, "", 0))
                            ELSE @]
               IN  /\ startup_dir' = IF in_startup THEN cleared ELSE startup_dir
                   /\ tool_dir' = IF in_startup THEN tool_dir ELSE cleared
                   /\ SetInstance(p, AtListing(J, I.pc, I.todo \ {n}))
    /\ UNCHANGED <<mode, tools, cfgFile, shell_conf, bashrc, zshrc, files, last,
                   bin_dir, prompt, discovery>>

\* the directory of the record the linking loop of I is at
RecordInStartup(I) == I.tools[I.i].category = Category_STARTUP

\* lines 224-245: the tests of the linking loop for one record
ConcLink(p) ==
    /\ instances.proc[p].pc = "link"
    /\ LET I == instances.proc[p]
           tool == I.tools[I.i]
           dir == IF RecordInStartup(I) THEN startup_dir ELSE tool_dir
       IN  IF LinkSkipped(tool, files)
           THEN SetInstance(p, AtRecord([I EXCEPT !.console =
                                            @ \o SkipConsole(tool, files)],
                                        I.i + 1))
           ELSE IF SlotOccupied(dir[tool.alias])
           THEN SetInstance(p, [I EXCEPT !.pc = "unlink"])
           ELSE SetInstance(p, [I EXCEPT !.pc = "symlink"])
    /\ UNCHANGED <<mode, tools, cfgFile, startup_dir, tool_dir, shell_conf,
                   bashrc, zshrc, files, last,
                   bin_dir, prompt, discovery>>

\* lines 246-250: the tests are made again and symlink_path.unlink() is
\* called.  A slot emptied in between is seen empty by the tests, or its
\* unlink() raises.
ConcUnlink(p) ==
    /\ instances.proc[p].pc = "unlink"
    /\ LET I == instances.proc[p]
           tool == I.tools[I.i]
           in_startup == RecordInStartup(I)
           dir == IF in_startup THEN startup_dir ELSE tool_dir
       IN  \E seen_empty \in IF SlotOccupied(dir[tool.alias]) THEN {FALSE}
                              ELSE BOOLEAN :
             \E u \in {IF seen_empty
                        THEN [raised |-> FALSE, entry |-> dir[tool.alias]]
                        ELSE UnlinkSlot(dir[tool.alias])} :
               LET unlinked == [dir EXCEPT ![tool.alias] = u.entry]
               IN  /\ startup_dir' = IF in_startup THEN unlinked ELSE startup_dir
                   /\ tool_dir' = IF in_startup THEN tool_dir ELSE unlinked
                   /\ IF u.raised
                      THEN SetInstance(p,
                               AtRecord([I EXCEPT !.console =
                                            Append(@, ErrorCreating(tool))],
                                        I.i + 1))
                      ELSE SetInstance(p, [I EXCEPT !.pc = "symlink"])
    /\ UNCHANGED <<mode, tools, cfgFile, shell_conf, bashrc, zshrc, files, last,
                   bin_dir, prompt, discovery>>

\* line 253: symlink_path.symlink_to(tool_path.resolve())
ConcSymlink(p) ==
    /\ instances.proc[p].pc = "symlink"
    /\ LET I == instances.proc[p]
           tool == I.tools[I.i]
           in_startup == RecordInStartup(I)
           dir == IF in_startup THEN startup_dir ELSE tool_dir
           m == SymlinkTo(dir[tool.alias],
                          Resolve(ExpandUser(PathStrip(tool.path))))
           linked == [dir EXCEPT ![tool.alias] = m.entry]
       IN  /\ startup_dir' = IF in_startup THEN linked ELSE startup_dir
           /\ tool_dir' = IF in_startup THEN tool_dir ELSE linked
           /\ SetInstance(p, AtRecord([I EXCEPT !.console =
                                          IF m.raised
                                          THEN Append(@, ErrorCreating(tool))
                                          ELSE @],
                                      I.i + 1))
    /\ UNCHANGED <<mode, tools, cfgFile, shell_conf, bashrc, zshrc, files, last,
                   bin_dir, prompt, discovery>>

\* line 199: update_shell_conf; save_config returns
ConcShellConf(p) ==
    /\ instances.proc[p].pc = "shell"
    /\ \E sc \in {update_shell_conf(shell_conf, bashrc, zshrc, ProjectRoot,
                                    NoFault)} :
         /\ shell_conf' = sc.shell_conf
         /\ bashrc' = sc.bashrc
         /\ zshrc' = sc.zshrc
         /\ instances' =
              [instances EXCEPT
                 !.proc[p].pc = "done",
                 !.proc[p].console = @ \o sc.console,
                 !.finished = Append(@, p)]
    /\ UNCHANGED <<mode, tools, cfgFile, startup_dir, tool_dir, files, last,
                   bin_dir, prompt, discovery>>

\* the disk after a save of the registry both processes then loaded
InitConc ==
    /\ mode = "conc"
    /\ tools = <<>>
    /\ files = RealFiles
    /\ last = Last("none", <<>>, <<>>, <<>>)
    /\ \E ts \in LoadedRegistries, t \in InitFileTexts :
         \E r \in {save_config(ts,
                       [cfg |-> AbsentFile, startup |-> EmptyDir,
                        tool |-> EmptyDir, bin |-> EmptyDir,
                        shell_conf |-> None,
                        bashrc |-> Some(t), zshrc |-> None],
                       RealFiles, ProjectRoot, NoFault)} :
           /\ cfgFile = r.disk.cfg
           /\ startup_dir = r.disk.startup
           /\ tool_dir = r.disk.tool
           /\ bin_dir = r.disk.bin
           /\ shell_conf = r.disk.shell_conf
           /\ bashrc = r.disk.bashrc
           /\ zshrc = r.disk.zshrc
           /\ instances =
                [proc |-> [p \in Instances |->
                              Instance("prompt", ts, {}, 0, <<>>)],
                 finished |-> <<>>, overlap |-> FALSE]
    /\ prompt = NoPrompt
    /\ discovery = NoDiscovery

NextConc ==
    \/ \E p \in Instances : ConcMutate(p)
    \/ \E p \in Instances : ConcOpen(p)
    \/ \E p \in Instances : ConcDump(p)
    \/ \E p \in Instances : ConcListDir(p)
    \/ \E p \in Instances : ConcClear(p)
    \/ \E p \in Instances : ConcLink(p)
    \/ \E p \in Instances : ConcUnlink(p)
    \/ \E p \in Instances : ConcSymlink(p)
    \/ \E p \in Instances : ConcShellConf(p)

SpecConc == InitConc /\ [][NextConc]_vars

(***************************************************************************)
(* Config files written by hand.  tools.yaml is a text file the user may   *)
(* edit: records may leave out keys, and a path may be any text.  SpecLoad *)
(* starts tmng on such a file; every I/O call succeeds.                    *)
(***************************************************************************)
MaxWritten == 2

RequiredKeys == {"name", "alias", "category"}
OptionalKeys == {"group", "path", "description", "enabled"}

\* a record with every key written, none at its default
FullRecord ==
    to_dict(Tool(<<"a", "_">>, <<"a", "_">>, Category_STARTUP,
                 Some(<<"d", "b">>), "~/x.sh", <<"d">>, FALSE))

\* a record whose path names the home directory of a user that does not exist
OtherUserRecord ==
    to_dict(Tool(<<"a", "_", "b">>, <<"a", "-">>, Category_TOOL,
                 Some(<<"d", "b">>), "~nosuch/x", <<>>, TRUE))

\* a record of the usual kind, as the add operation writes it
PlainRecord ==
    to_dict(Tool(<<"a", "_", "c">>, <<"a", "_">>, Category_TOOL, None,
                 "/opt/link", <<>>, TRUE))

Restrict(data, keys) == [k \in keys |-> data[k]]

WrittenRecords ==
    { Restrict(FullRecord, RequiredKeys \cup (OptionalKeys \ omitted)) :
        omitted \in SUBSET OptionalKeys }
    \cup { OtherUserRecord, PlainRecord,
           Restrict(PlainRecord, {"name", "category", "path"}) }

WrittenLists ==
    UNION { [1..n -> WrittenRecords] : n \in 0..MaxWritten }

WrittenFiles ==
    {AbsentFile, EmptyFile, PartialFile, ScalarFile, EmptyListFile, NoToolsFile}
    \cup { YamlFile([version |-> "1.0", tools |-> l]) : l \in WrittenLists }

InitLoad ==
    /\ mode = "off"
    /\ tools = <<>>
    /\ cfgFile \in WrittenFiles
    /\ startup_dir = EmptyDir
    /\ tool_dir = EmptyDir
    /\ bin_dir = EmptyDir
    /\ shell_conf = None
    /\ \E t \in InitFileTexts : bashrc = Some(t)
    /\ zshrc = None
    /\ files = RealFiles
    /\ last = Last("none", <<>>, <<>>, <<>>)
    /\ instances = NoInstances
    /\ prompt = NoPrompt
    /\ discovery = NoDiscovery

NextLoad ==
    \/ Start({NoFault})
    \/ Exit
    \/ ToggleTool({NoFault})
    \/ ToggleGroup({NoFault})
    \/ DeleteTool({NoFault})
    \/ DeleteGroup({NoFault})
    \/ UpdateShellConfig({NoFault})

SpecLoad == InitLoad /\ [][NextLoad]_vars

(***************************************************************************)
(* The handlers prompt by prompt.  SpecPrompt follows one process through  *)
(* the statements of a handler: the prompts it waits at, the assignment to *)
(* the registry, the call of save_config.  An interrupt (Ctrl-C) may be    *)
(* delivered at every prompt: inquirer.prompt then returns None, input()   *)
(* raises KeyboardInterrupt, and the handler returns.  Every I/O call      *)
(* succeeds.                                                               *)
(***************************************************************************)
MaxToolsPrompt == 1
MaxInterrupts == 2

ListOps == {"toggle", "toggle_group", "delete", "delete_group"}

\* where the process waits for the user
PromptPositions ==
    {"idle", "select", "confirm", "pause", "answers", "continue", "another"}

\* the statements of a handler with a bug: the handler waits for Enter
\* before it saves
HandlerStepsSaveLate(op) ==
    IF op \in {"toggle", "toggle_group"}
    THEN <<"select", "mutate", "pause", "save">>
    ELSE IF op \in {"delete", "delete_group"}
    THEN <<"select", "confirm", "mutate", "pause", "save">>
    ELSE <<"answers", "confirm", "mutate", "save">>

\* the statements of a handler with a bug: _add_single_tool's record is
\* appended and saved before "Add this tool?" is asked
HandlerStepsAddFirst(op) ==
    IF op \in {"toggle", "toggle_group"}
    THEN <<"select", "mutate", "save", "pause">>
    ELSE IF op \in {"delete", "delete_group"}
    THEN <<"select", "confirm", "mutate", "save", "pause">>
    ELSE <<"answers", "mutate", "save", "confirm">>

\* the statements of a handler in the order of the code: the prompts, the
\* assignment to self.config.tools, save_config, "Press Enter"
HandlerSteps(op) ==
    IF op \in {"toggle", "toggle_group"}
    THEN <<"select", "mutate", "save", "pause">>
    ELSE IF op \in {"delete", "delete_group"}
    THEN <<"select", "confirm", "mutate", "save", "pause">>
    ELSE <<"answers", "confirm", "mutate", "save">>

StepAfter(op, at) ==
    LET steps == HandlerSteps(op)
        k == CHOOSE i \in DOMAIN steps : steps[i] = at
    IN  IF k < Len(steps) THEN steps[k + 1] ELSE "done"

\* the handler returned: tmng -l is back at its menu, tmng -a goes on to
\* "Add another tool to group?" if there is a group, else to "Add another
\* tool?"
Returned(p) ==
    IF p.op = "add"
    THEN [p EXCEPT !.at = IF p.arg.group # None THEN "continue" ELSE "another",
                   !.arg = [NoArg EXCEPT !.group = p.arg.group]]
    ELSE [NoPrompt EXCEPT !.interrupts = p.interrupts]

Goto(p, at) == IF at = "done" THEN Returned(p) ELSE [p EXCEPT !.at = at]

\* the menu of tmng -l or the group prompt of tmng -a is answered
Choose ==
    /\ prompt.at = "idle"
    /\ \/ /\ mode = "list"
          /\ \E op \in ListOps :
                /\ op \in {"toggle", "delete"} => tools # <<>>
                /\ op \in {"toggle_group", "delete_group"} =>
                       Groups(tools) # {}
                /\ prompt' = [prompt EXCEPT !.op = op,
                                            !.at = HandlerSteps(op)[1]]
       \/ /\ mode = "add"
          /\ \E group_raw \in GroupInputs :
                prompt' = [prompt EXCEPT !.op = "add", !.at = "answers",
                                         !.arg.group = GroupName(group_raw)]
    /\ UNCHANGED <<mode, tools, cfgFile, startup_dir, tool_dir, shell_conf,
                   bashrc, zshrc, files, last, instances, discovery, bin_dir>>

\* a select prompt, the prompts of _add_single_tool or a confirm prompt is
\* answered
Answer ==
    /\ mode # "off"
    /\ \/ /\ prompt.at = "select" /\ prompt.op \in {"toggle", "delete"}
          /\ \E i \in DOMAIN tools :
                prompt' = [Goto(prompt, StepAfter(prompt.op, "select"))
                              EXCEPT !.arg.name = tools[i].name]
       \/ /\ prompt.at = "select"
          /\ prompt.op \in {"toggle_group", "delete_group"}
          /\ \E group_name \in Groups(tools) :
                prompt' = [Goto(prompt, StepAfter(prompt.op, "select"))
                              EXCEPT !.arg.group = Some(group_name),
                                     !.arg.count =
                                        IF prompt.op = "delete_group"
                                        THEN Cardinality(InGroup(tools, group_name))
                                        ELSE 0]
       \/ /\ prompt.at = "answers"
          /\ \E category \in Categories, path \in PathInputs,
                alias_raw \in AliasInputs,
                description_raw \in DescriptionInputs :
                /\ AliasValid(alias_raw)
                /\ PathExists(ExpandUser(PathStrip(path)), files)
                /\ IF AliasTaken(tools, Strip(alias_raw))
                   THEN \* "Alias already exists", Press Enter
                        prompt' = [prompt EXCEPT !.at = "pause"]
                   ELSE /\ Len(tools) < MaxToolsPrompt
                        /\ prompt' =
                             [Goto(prompt, StepAfter("add", "answers"))
                                 EXCEPT !.arg.tool =
                                     <<NewTool(tools, prompt.arg.group,
                                               category, path, alias_raw,
                                               description_raw)>>]
       \/ /\ prompt.at = "confirm"
          /\ \E confirm \in BOOLEAN :
                prompt' = IF confirm
                          THEN [Goto(prompt, StepAfter(prompt.op, "confirm"))
                                   EXCEPT !.arg.confirm = TRUE]
                          ELSE Returned(prompt)
    /\ UNCHANGED <<mode, tools, cfgFile, startup_dir, tool_dir, shell_conf,
                   bashrc, zshrc, files, last, instances, discovery, bin_dir>>

\* the assignment of the handler to the registry in memory
Mutated(ts, op, arg) ==
    IF op = "toggle"
    THEN ToggleRecord(ts, FirstNamed(ts, arg.name))
    ELSE IF op = "toggle_group"
    THEN ToggleGroupRecords(ts, TheValue(arg.group))
    ELSE IF op = "delete"
    THEN DeleteNamed(ts, arg.name)
    ELSE IF op = "delete_group"
    THEN DeleteGrouped(ts, TheValue(arg.group))
    ELSE Append(ts, arg.tool[1])

Mutate ==
    /\ prompt.at = "mutate"
    /\ tools' = Mutated(tools, prompt.op, prompt.arg)
    /\ prompt' = Goto(prompt, StepAfter(prompt.op, "mutate"))
    /\ UNCHANGED <<mode, cfgFile, startup_dir, tool_dir, shell_conf, bashrc,
                   zshrc, files, last, instances, discovery, bin_dir>>

\* self.config.save_config()
Save ==
    /\ prompt.at = "save"
    /\ \E r \in {save_config(tools, Disk, files, ProjectRoot, NoFault)} :
          /\ SetDisk(r.disk)
          /\ last' = Last(prompt.op, <<>>,
                          r.console
                          \o (IF prompt.op = "delete_group"
                              THEN <<Msg("ok", "deleted group",
                                         TheValue(prompt.arg.group), "",
                                         prompt.arg.count)>>
                              ELSE <<>>),
                          r.steps)
    /\ prompt' = Goto(prompt, StepAfter(prompt.op, "save"))
    /\ UNCHANGED <<mode, tools, files, instances, discovery>>

\* Enter at "Press Enter to continue", or the answer to "Add another tool
\* to group?" or "Add another tool?"
Enter ==
    /\ mode # "off"
    /\ \/ /\ prompt.at = "pause"
          /\ prompt' = IF prompt.op = "add" THEN Returned(prompt)
                       ELSE Goto(prompt, StepAfter(prompt.op, "pause"))
          /\ UNCHANGED <<mode, tools, bin_dir>>
       \/ /\ prompt.at = "continue"
          /\ \E continue \in BOOLEAN :
                prompt' = [prompt EXCEPT !.at = IF continue THEN "answers"
                                                ELSE "another"]
          /\ UNCHANGED <<mode, tools, bin_dir>>
       \/ /\ prompt.at = "another"
          /\ \E another \in BOOLEAN :
                IF another
                THEN /\ prompt' = [NoPrompt EXCEPT
                                      !.interrupts = prompt.interrupts]
                     /\ UNCHANGED <<mode, tools, bin_dir>>
                ELSE \* add_tool_interactive returns and the process ends
                     /\ prompt' = [NoPrompt EXCEPT
                                      !.interrupts = prompt.interrupts]
                     /\ mode' = "off"
                     /\ tools' = <<>>
    /\ UNCHANGED <<cfgFile, startup_dir, tool_dir, shell_conf, bashrc, zshrc,
                   files, last, instances, discovery, bin_dir>>

\* Ctrl-C while the process waits at a prompt.  At the menu and at the
\* group prompt the command returns and the process ends; inside a handler
\* of tmng -l the handler returns to the menu; inside _add_single_tool the
\* call returns None and the add loop goes on to its next prompt; at "Add
\* another tool to group?" the inner loop ends, at "Add another tool?" the
\* command.
Interrupt ==
    /\ mode # "off"
    /\ prompt.at \in PromptPositions
    /\ prompt.interrupts < MaxInterrupts
    /\ LET p == [prompt EXCEPT !.interrupts = @ + 1]
       IN  IF prompt.at \in {"idle", "another"}
           THEN /\ prompt' = [NoPrompt EXCEPT !.interrupts = p.interrupts]
                /\ mode' = "off"
                /\ tools' = <<>>
           ELSE /\ prompt' = IF prompt.at = "continue"
                             THEN [p EXCEPT !.at = "another"]
                             ELSE Returned(p)
                /\ UNCHANGED <<mode, tools, bin_dir>>
    /\ UNCHANGED <<cfgFile, startup_dir, tool_dir, shell_conf, bashrc, zshrc,
                   files, last, instances, discovery, bin_dir>>

NextPrompt ==
    \/ Start({NoFault})
    \/ Exit
    \/ Choose
    \/ Answer
    \/ Mutate
    \/ Save
    \/ Enter
    \/ Interrupt

SpecPrompt == Init /\ [][NextPrompt]_vars

(***************************************************************************)
(* Project-root discovery.  A path is the sequence of its names below "/". *)
(* SpecRoot draws the command line (--config or none), the working         *)
(* directory, whether the program is a frozen executable, and the config   *)
(* files that exist; the paths main passes on are absolute (it resolves    *)
(* the argument), and no name on them is a symlink.                        *)
(***************************************************************************)
ConfigName == "tools.yaml"

\* Path.parent
Parent(path) == SubSeq(path, 1, Len(path) - 1)
\* dir / name
Join(dir, name) == Append(dir, name)

WorkDir == <<"work">>
\* the directory of tmng.py
ScriptDir == <<"opt", "tmng", "src">>
\* the directory of the frozen executable
ExeDir == <<"usr", "bin">>

CwdInputs == {WorkDir, Parent(ScriptDir)}
ConfigArgs == {None, Some(<<"etc", "alt", "my.yaml">>),
               Some(Join(WorkDir, ConfigName))}
ConfigFiles ==
    { Join(d, ConfigName) :
        d \in {WorkDir, ScriptDir, Parent(ScriptDir), ExeDir, Parent(ExeDir)} }
    \cup { TheValue(a) : a \in ConfigArgs \ {None} }

\* lines 101-106: sys.frozen chooses sys.executable or __file__
ProgramDir(frozen) == IF frozen THEN ExeDir ELSE ScriptDir

SearchDirs(cwd, frozen) ==
    <<cwd, ProgramDir(frozen), Parent(ProgramDir(frozen))>>

\* get_project_root: the first directory of search_dirs that holds
\* tools.yaml, else the working directory
get_project_root(config_path, cwd, frozen, existing) ==
    IF config_path # None /\ TheValue(config_path) \in existing
    THEN Parent(TheValue(config_path))
    ELSE LET search_dirs == SearchDirs(cwd, frozen)
             found == { i \in DOMAIN search_dirs :
                          Join(search_dirs[i], ConfigName) \in existing }
         IN  IF found = {} THEN cwd
             ELSE search_dirs[CHOOSE i \in found : \A k \in found : i <= k]

\* TmngConfig.__init__, lines 128-132: the root of the process
ConstructorRoot(config_path, cwd, frozen, existing) ==
    IF config_path = None
    THEN get_project_root(None, cwd, frozen, existing)
    ELSE Parent(TheValue(config_path))

Discovery(at, config_path, cwd, frozen, existing, project_root) ==
    [at |-> at, config_path |-> config_path, cwd |-> cwd, frozen |-> frozen,
     existing |-> existing, project_root |-> project_root]

InitRoot ==
    /\ mode = "off"
    /\ tools = <<>>
    /\ cfgFile = AbsentFile
    /\ startup_dir = EmptyDir
    /\ tool_dir = EmptyDir
    /\ bin_dir = EmptyDir
    /\ shell_conf = None
    /\ bashrc = None
    /\ zshrc = None
    /\ files = RealFiles
    /\ last = Last("none", <<>>, <<>>, <<>>)
    /\ instances = NoInstances
    /\ prompt = NoPrompt
    /\ \E config_path \in ConfigArgs, cwd \in CwdInputs, frozen \in BOOLEAN,
          existing \in SUBSET ConfigFiles :
          discovery = Discovery("start", config_path, cwd, frozen, existing,
                                <<>>)

\* a call of get_project_root(config_path)
GetProjectRoot ==
    /\ discovery.at = "start"
    /\ discovery' =
          [discovery EXCEPT
              !.at = "searched",
              !.project_root = get_project_root(discovery.config_path,
                                   discovery.cwd, discovery.frozen,
                                   discovery.existing)]
    /\ UNCHANGED <<mode, tools, cfgFile, startup_dir, tool_dir, shell_conf,
                   bashrc, zshrc, files, last, instances, prompt, bin_dir>>

\* TmngConfig(config_path), as main calls it
Construct ==
    /\ discovery.at = "start"
    /\ discovery' =
          [discovery EXCEPT
              !.at = "constructed",
              !.project_root = ConstructorRoot(discovery.config_path,
                                   discovery.cwd, discovery.frozen,
                                   discovery.existing)]
    /\ UNCHANGED <<mode, tools, cfgFile, startup_dir, tool_dir, shell_conf,
                   bashrc, zshrc, files, last, instances, prompt, bin_dir>>

NextRoot ==
    \/ GetProjectRoot
    \/ Construct

SpecRoot == InitRoot /\ [][NextRoot]_vars

(***************************************************************************)
(* Managed directories that hold entries tmng did not make.  SpecFiles     *)
(* starts with regular files and symlinks of other origin in startup/,     *)
(* tool/ and bin/; every I/O call succeeds.                                *)
(***************************************************************************)
MaxToolsFiles == 1

ForeignEntries == {NoEntry, RegularFile, Symlink("/opt/y")}

ForeignDirs ==
    { [n \in FileNames |-> IF n = DotDot THEN Directory ELSE f[n]] :
        f \in [FileNames \ {DotDot} -> ForeignEntries] }

\* bin/ with a program and a symlink the user put there
ForeignBin ==
    [n \in FileNames |->
        IF n = DotDot THEN Directory
        ELSE IF n = <<"a", "_">> THEN RegularFile
        ELSE Symlink("/opt/y")]

InitFiles ==
    /\ mode = "off"
    /\ tools = <<>>
    /\ cfgFile = AbsentFile
    /\ startup_dir \in ForeignDirs
    /\ tool_dir \in ForeignDirs
    /\ bin_dir = ForeignBin
    /\ shell_conf = None
    /\ \E t \in InitFileTexts : bashrc = Some(t)
    /\ zshrc = None
    /\ files = RealFiles
    /\ last = Last("none", <<>>, <<>>, <<>>)
    /\ instances = NoInstances
    /\ prompt = NoPrompt
    /\ discovery = NoDiscovery

NextFiles ==
    \/ Start({NoFault})
    \/ Exit
    \/ AddTool({NoFault}, MaxToolsFiles)
    \/ ToggleTool({NoFault})
    \/ ToggleGroup({NoFault})
    \/ DeleteTool({NoFault})
    \/ DeleteGroup({NoFault})
    \/ UpdateShellConfig({NoFault})
    \/ FileVanishes
    \/ FileAppears

SpecFiles == InitFiles /\ [][NextFiles]_vars

(***************************************************************************)
(* The patcher under relocation.  SpecPatch runs _update_shell_init_files  *)
(* for processes whose project roots differ; the init files are the same   *)
(* files of the home directory.  A root is the sequence of the parts of    *)
(* its path, and "in" on texts is containment of a run of parts.           *)
(***************************************************************************)
MaxRuns == 3

\* the second root ends with the first one
Roots == { ProjectRoot, <<"/home/u">> \o ProjectRoot, <<"/opt", "/tmng">> }

Patched(runs, used, root) ==
    [at |-> "patched", runs |-> runs, used |-> used, project_root |-> root]

InitPatch ==
    /\ mode = "off"
    /\ tools = <<>>
    /\ cfgFile = AbsentFile
    /\ startup_dir = EmptyDir
    /\ tool_dir = EmptyDir
    /\ bin_dir = EmptyDir
    /\ shell_conf = None
    /\ bashrc \in {None} \cup { Some(t) : t \in InitFileTexts }
    /\ zshrc \in {None} \cup { Some(t) : t \in InitFileTexts }
    /\ files = RealFiles
    /\ last = Last("none", <<>>, <<>>, <<>>)
    /\ instances = NoInstances
    /\ prompt = NoPrompt
    /\ discovery = Patched(0, {}, <<>>)

\* _update_shell_init_files of a process whose project root is root
PatchAt ==
    /\ discovery.runs < MaxRuns
    /\ \E root \in Roots :
         \E r \in {update_shell_init_files(bashrc, zshrc, root)} :
            /\ bashrc' = r.bashrc
            /\ zshrc' = r.zshrc
            /\ last' = Last("patch", <<>>, r.console, <<"patch">>)
            /\ discovery' = Patched(discovery.runs + 1,
                                    discovery.used \cup {root}, root)
    /\ UNCHANGED <<mode, tools, cfgFile, startup_dir, tool_dir, bin_dir,
                   shell_conf, files, instances, prompt>>

NextPatch == PatchAt

SpecPatch == InitPatch /\ [][NextPatch]_vars

(***************************************************************************)
(* Adding to a registry that already holds names.  SpecName starts tmng -a *)
(* on a registry whose records are named like the names the add operation  *)
(* derives from the alias inputs ("a_", "a__1", "a__2", ...), as earlier   *)
(* adds or an edit of tools.yaml left them.  These records are disabled    *)
(* and have aliases that the alias inputs do not produce.                  *)
(***************************************************************************)
MaxSuffix == 2
MaxAdded == 2

\* "a_", the name both "a-" and "a_" are turned into
BaseName == <<"a", "_">>

NamesHeld ==
    {BaseName} \cup { BaseName \o <<"_">> \o ToDecimal(k) : k \in 1..MaxSuffix }

\* the registry that holds the names of held, in the order of NamesHeld
RECURSIVE NamedRegistry(_, _)
NamedRegistry(held, k) ==
    IF k > MaxSuffix THEN <<>>
    ELSE LET name == IF k = 0 THEN BaseName
                     ELSE BaseName \o <<"_">> \o ToDecimal(k)
         IN  (IF name \in held
              THEN <<Tool(name, <<"x">> \o ToDecimal(k), Category_TOOL, None,
                          "/opt/link", <<>>, FALSE)>>
              ELSE <<>>)
             \o NamedRegistry(held, k + 1)

InitName ==
    /\ mode = "add"
    /\ \E held \in SUBSET NamesHeld : tools = NamedRegistry(held, 0)
    /\ cfgFile = YamlFile(ConfigData(tools))
    /\ startup_dir = EmptyDir
    /\ tool_dir = EmptyDir
    /\ bin_dir = EmptyDir
    /\ shell_conf = None
    /\ \E t \in InitFileTexts : bashrc = Some(t)
    /\ zshrc = None
    /\ files = RealFiles
    /\ last = Last("none", <<>>, <<>>, <<>>)
    /\ instances = NoInstances
    /\ prompt = NoPrompt
    /\ discovery = NoDiscovery

NextName == AddTool({NoFault}, MaxSuffix + 1 + MaxAdded)

SpecName == InitName /\ [][NextName]_vars

(***************************************************************************)
(* The handlers of tmng -l on a registry of several records.  SpecListed   *)
(* starts with a tools.yaml that earlier runs left: MaxListed records, of  *)
(* which each is in one of two groups or in none.  The files the records   *)
(* name were removed since, so a rebuild warns and makes no symlink.       *)
(***************************************************************************)
MaxListed == 3

ListedGroups == { None, Some(<<"d", "b">>), Some(<<"o", "p", "s">>) }

ListedTool(i, group) ==
    Tool(<<"t">> \o ToDecimal(i), <<"t">> \o ToDecimal(i), Category_TOOL,
         group, "/opt/gone", <<>>, TRUE)

InitListed ==
    /\ mode = "off"
    /\ tools = <<>>
    /\ \E groups \in [1..MaxListed -> ListedGroups] :
          cfgFile = YamlFile(ConfigData([i \in 1..MaxListed |->
                                            ListedTool(i, groups[i])]))
    /\ startup_dir = EmptyDir
    /\ tool_dir = EmptyDir
    /\ bin_dir = EmptyDir
    /\ shell_conf = None
    /\ \E t \in InitFileTexts : bashrc = Some(t)
    /\ zshrc = None
    /\ files = RealFiles
    /\ last = Last("none", <<>>, <<>>, <<>>)
    /\ instances = NoInstances
    /\ prompt = NoPrompt
    /\ discovery = NoDiscovery

SpecListed == InitListed /\ [][NextPrompt]_vars

(***************************************************************************)
(* The same toggle twice.  SpecTwice is Spec without the deletes, and it   *)
(* notes at every toggle what was toggled, the registry and the managed    *)
(* directories before it, and the state it left.  A toggle of the same     *)
(* tool or group that starts in the state the noted toggle left, with the  *)
(* same files on disk, is the second of two.                               *)
(***************************************************************************)
MaxToolsTwice == 2

\* the symlinks of a directory: name and target
Links(dir) ==
    { <<n, dir[n].target>> : n \in { m \in DOMAIN dir : dir[m].kind = "link" } }

Registered ==
    [tools |-> tools, startup |-> startup_dir, tool |-> tool_dir,
     files |-> files]

\* a rebuild now would leave the symlinks as they are
Settled ==
    LET sl == update_symlinks(tools, startup_dir, tool_dir, files, NoFault)
    IN  /\ Links(sl.startup) = Links(startup_dir)
        /\ Links(sl.tool) = Links(tool_dir)

Toggled(op, what, n, before, settled, after) ==
    [at |-> "toggled", op |-> op, what |-> what, n |-> n, before |-> before,
     settled |-> settled, after |-> after]

\* the toggle of what that starts now is the second of two
SecondOf(op, what) ==
    /\ discovery.at = "toggled"
    /\ discovery.n = 1
    /\ discovery.op = op
    /\ discovery.what = what
    /\ discovery.after = Registered

NoteToggle(op, what) ==
    discovery' =
        LET after == [tools |-> tools', startup |-> startup_dir',
                      tool |-> tool_dir', files |-> files']
        IN  IF SecondOf(op, what)
            THEN Toggled(op, what, 2, discovery.before, discovery.settled,
                         after)
            ELSE Toggled(op, what, 1, Registered, Settled, after)

ToggleToolNoted ==
    \E i \in DOMAIN tools :
        /\ ToggleToolAt(i, {NoFault})
        /\ NoteToggle("toggle", tools[i].name)

ToggleGroupNoted ==
    \E group_name \in Groups(tools) :
        /\ ToggleGroupOf(group_name, {NoFault})
        /\ NoteToggle("toggle_group", group_name)

NextTwice ==
    \/ Start({NoFault})
    \/ Exit
    \/ AddTool({NoFault}, MaxToolsTwice)
    \/ ToggleToolNoted
    \/ ToggleGroupNoted
    \/ FileVanishes
    \/ FileAppears

SpecTwice == Init /\ [][NextTwice]_vars

(***************************************************************************)
(* Vocabulary of the properties.                                           *)
(***************************************************************************)
SaveOps == {"add", "toggle", "toggle_group", "delete", "delete_group"}
RebuildOps == SaveOps \cup {"update_shell", "load_default"}
FullPipeline == <<"write", "symlinks", "shell_conf", "patch">>

\* the registry: that of the running process, else what the config file holds
Registry ==
    IF mode = "off" THEN load_config(Disk, files, ProjectRoot, NoFault).tools
    ELSE tools

HasPath(t) == PathExists(ExpandUser(t.path), files)
LinkTarget(t) == Resolve(ExpandUser(t.path))
OwnDir(t) == IF t.category = Category_STARTUP THEN startup_dir ELSE tool_dir
OtherDir(t) == IF t.category = Category_STARTUP THEN tool_dir ELSE startup_dir

\* record t has its one symlink, in the directory of its category
Linked(t) ==
    /\ OwnDir(t)[t.alias] = Symlink(LinkTarget(t))
    /\ OtherDir(t)[t.alias].kind # "link"

Unlinked(t) ==
    /\ startup_dir[t.alias].kind # "link"
    /\ tool_dir[t.alias].kind # "link"

Errors(console) == { i \in DOMAIN console : console[i].level = "error" }

(***************************************************************************)
(* C1.  After every save, each enabled record whose path exists has        *)
(* exactly one symlink, named by its alias, in the directory of its        *)
(* category, pointing at the resolved path; every other record has none.   *)
(***************************************************************************)
C1_LinksMatchRegistry ==
    (mode # "off" /\ last.op \in SaveOps) =>
        \A i \in DOMAIN tools :
            IF tools[i].enabled /\ HasPath(tools[i])
            THEN Linked(tools[i]) ELSE Unlinked(tools[i])

\* the same, for the records whose alias is not ".."
C1_LinksMatchOutsideDotDot ==
    (mode # "off" /\ last.op \in SaveOps) =>
        \A i \in DOMAIN tools :
            tools[i].alias # DotDot =>
                IF tools[i].enabled /\ HasPath(tools[i])
                THEN Linked(tools[i]) ELSE Unlinked(tools[i])

C1_LinkedWitness ==
    /\ mode = "add" /\ last.op = "add"
    /\ \E i \in DOMAIN tools :
         /\ tools[i].alias = last.alias /\ tools[i].alias # DotDot
         /\ tools[i].category = Category_TOOL
         /\ Linked(tools[i])

(***************************************************************************)
(* C2.  In every registry reached by adds, toggles and deletes, no two     *)
(* records share a name and no two records share an alias.                 *)
(***************************************************************************)
C2_Uniqueness ==
    \A i, j \in DOMAIN tools :
        i # j => tools[i].name # tools[j].name /\ tools[i].alias # tools[j].alias

\* two aliases with the same sanitized text were added
C2_CollisionWitness ==
    \E i, j \in DOMAIN tools :
        /\ i # j
        /\ Sanitize(tools[i].alias) = Sanitize(tools[j].alias)
        /\ tools[j].name = Sanitize(tools[j].alias) \o <<"_", "1">>

(***************************************************************************)
(* C5.  After any rebuild, every symlink in startup/ or tool/ is named by  *)
(* the alias of an enabled record of the matching category.                *)
(***************************************************************************)
OwnedLink(dir, category, n) ==
    dir[n].kind = "link" =>
        \E i \in DOMAIN Registry :
            /\ Registry[i].enabled
            /\ Registry[i].alias = n
            /\ Registry[i].category = category

C5_NoStaleLinks ==
    last.op \in RebuildOps =>
        \A n \in FileNames :
            /\ OwnedLink(startup_dir, Category_STARTUP, n)
            /\ OwnedLink(tool_dir, Category_TOOL, n)

\* a tool whose file exists was just disabled and has no link
C5_DisabledWitness ==
    /\ mode = "list" /\ last.op = "toggle"
    /\ \E i \in DOMAIN tools :
         /\ tools[i].alias = last.alias /\ tools[i].alias # DotDot
         /\ ~ tools[i].enabled /\ HasPath(tools[i])
         /\ Unlinked(tools[i])

(***************************************************************************)
(* C4.  A rebuild that follows a rebuild, with the registry and the tool   *)
(* files unchanged in between, leaves the symlinks of startup/ and tool/   *)
(* as they were and reports no error.                                      *)
(***************************************************************************)
\* this step is a run of --update-shell right after a rebuild
RebuildAgain ==
    /\ last.op \in RebuildOps /\ "symlinks" \in Range(last.steps)
    /\ mode = "off" /\ mode' = "off" /\ last'.op = "update_shell"

C4_RebuildIdempotent ==
    [][RebuildAgain =>
          /\ startup_dir' = startup_dir
          /\ tool_dir' = tool_dir
          /\ Errors(last'.console) = {}]_vars

\* the same without the report: the second run leaves the same symlinks
C4_SameLinks ==
    [][RebuildAgain => startup_dir' = startup_dir /\ tool_dir' = tool_dir]_vars

(***************************************************************************)
(* C6.  A rebuild of a registry that mixes enabled records with a missing  *)
(* path and enabled records with an existing path links every record whose *)
(* path exists and prints a warning for every record whose path is         *)
(* missing; no exception leaves the rebuild.                               *)
(***************************************************************************)
MissingPathWarned(t) ==
    \E k \in DOMAIN last.console :
        last.console[k] = Msg("warning", "path missing", <<>>, ExpandUser(t.path), 0)

MixedRegistry ==
    /\ \E i \in DOMAIN Registry : Registry[i].enabled /\ HasPath(Registry[i])
    /\ \E i \in DOMAIN Registry : Registry[i].enabled /\ ~ HasPath(Registry[i])

C6_PartialFailureTolerance ==
    (last.op \in RebuildOps /\ MixedRegistry) =>
        /\ \A i \in DOMAIN Registry :
             Registry[i].enabled =>
                IF HasPath(Registry[i]) THEN Linked(Registry[i])
                ELSE MissingPathWarned(Registry[i])
        /\ \A k \in DOMAIN last.console : last.console[k].what # "uncaught"

\* the same, for the records whose alias is not ".."
C6_ToleranceOutsideDotDot ==
    (last.op \in RebuildOps /\ MixedRegistry) =>
        /\ \A i \in DOMAIN Registry :
             (Registry[i].enabled /\ Registry[i].alias # DotDot) =>
                IF HasPath(Registry[i]) THEN Linked(Registry[i])
                ELSE MissingPathWarned(Registry[i])
        /\ \A k \in DOMAIN last.console : last.console[k].what # "uncaught"

(***************************************************************************)
(* C7.  For a fixed project root, an init file holds the source line at    *)
(* most once however often the patcher ran, and no step changes an init    *)
(* file that already contains the path of the fragment.                    *)
(***************************************************************************)
\* how often seq p occurs in seq s
Occurrences(s, p) ==
    Cardinality({ i \in 0..(Len(s) - Len(p)) : SubSeq(s, i + 1, i + Len(p)) = p })

SourcedAtMostOnce(file) ==
    file # None => Occurrences(TheValue(file), SourceLine(ProjectRoot)) <= 1

KeptWhenSourced(file, file_after) ==
    (file # None /\ Contains(TheValue(file), ShellConfPath(ProjectRoot)))
        => file_after = file

C7_PatchIdempotent ==
    /\ [](SourcedAtMostOnce(bashrc) /\ SourcedAtMostOnce(zshrc))
    /\ [][KeptWhenSourced(bashrc, bashrc') /\ KeptWhenSourced(zshrc, zshrc')]_vars

\* the patcher ran on a .bashrc that held the source line, and added nothing
C7_SecondPatchWitness ==
    /\ last.op = "toggle" /\ "patch" \in Range(last.steps)
    /\ bashrc # None
    /\ Occurrences(TheValue(bashrc), SourceLine(ProjectRoot)) = 1
    /\ \A k \in DOMAIN last.console : last.console[k].what # "updated .bashrc"

(***************************************************************************)
(* C8.  As claimed: every add, toggle, group toggle, delete and group      *)
(* delete is followed by the whole pipeline (config file write, symlink    *)
(* rebuild, shell fragment write, init-file patch), so that no state has   *)
(* the config file of a save written without its rebuild and its patch.    *)
(***************************************************************************)
C8_FullPipelineAlways ==
    last.op \in SaveOps => last.steps = FullPipeline

IsPrefix(s, t) == Len(s) <= Len(t) /\ s = SubSeq(t, 1, Len(s))

\* the save reported that it stopped
StopReported(console) ==
    \E k \in DOMAIN console :
        console[k].what \in {"saving config", "updating shell.conf"}

\* C8 as amended: the steps of the pipeline run in this order and stop at the
\* first one that fails with an I/O error; a save that stopped reported it,
\* and a save that reported no stop ran all four steps, wrote the registry
\* and patched every init file that exists.
C8_PipelineUntilFailure ==
    last.op \in SaveOps =>
        /\ IsPrefix(last.steps, FullPipeline)
        /\ last.steps # FullPipeline <=> StopReported(last.console)
        /\ (mode # "off" /\ "write" \in Range(last.steps)) =>
               cfgFile = YamlFile(ConfigData(tools))
        /\ "patch" \in Range(last.steps) =>
               /\ shell_conf # None
               /\ \A f \in {bashrc, zshrc} :
                     f # None => Contains(TheValue(f), ShellConfPath(ProjectRoot))

\* a toggle whose save ran the four steps
C8_WholePipelineWitness ==
    /\ mode = "list" /\ last.op = "toggle" /\ last.steps = FullPipeline
    /\ tools # <<>> /\ cfgFile = YamlFile(ConfigData(tools))

\* a save that stopped after the config file was written
C8_StoppedWitness ==
    /\ last.op \in SaveOps /\ last.steps = <<"write">>
    /\ StopReported(last.console)

(***************************************************************************)
(* C9.  A save whose write of the config file fails reports the error and  *)
(* leaves the config file with the content it had before.                  *)
(***************************************************************************)
\* this step is a save in which the config file write did not complete
WriteFailed ==
    /\ mode # "off" /\ mode' = mode /\ last'.op \in SaveOps
    /\ "write" \notin Range(last'.steps)

C9_PreviousContentKept ==
    [][WriteFailed =>
          /\ \E k \in DOMAIN last'.console : last'.console[k] = ErrorSaving
          /\ cfgFile' = cfgFile]_vars

\* the part that holds: the failure is reported
C9_FailureReported ==
    [][WriteFailed =>
          \E k \in DOMAIN last'.console : last'.console[k] = ErrorSaving]_vars

(***************************************************************************)
(* C3.  As claimed: for any record list, whatever the group of a record    *)
(* (any text, or absent), saving the list and loading the written file     *)
(* gives the same list, field by field and in the same order.              *)
(***************************************************************************)
\* this step loads the file that the step before wrote
LoadsSaved == mode = "saved" /\ mode' = "loaded"

C3_RoundTrip ==
    [][LoadsSaved => tools' = tools]_vars

\* C3 as amended: the same for the record lists in which no group is the text
\* "None", the text an absent group is written as; an absent group loads as
\* absent.
C3_RoundTripExceptSentinel ==
    [][(LoadsSaved /\ \A i \in DOMAIN tools : tools[i].group # Some(NoneText))
          => tools' = tools /\ cfgFile' = cfgFile]_vars

\* a list with an absent group, an empty group and a named group came back
C3_LoadedWitness ==
    /\ mode = "loaded" /\ last.op = "load" /\ last.console = <<>>
    /\ cfgFile = YamlFile(ConfigData(tools))
    /\ \E i, j \in DOMAIN tools :
         /\ tools[i].group = None
         /\ tools[j].group \in {Some(<<>>), Some(<<"d", "b">>)}
         /\ ~ tools[i].enabled /\ tools[j].enabled

(***************************************************************************)
(* C10.  As claimed: when two processes each change the registry and save, *)
(* however their steps interleave, the config file in the end holds the    *)
(* registry of the process that saved last and the symlinks of startup/    *)
(* and tool/ are those of that registry.                                   *)
(***************************************************************************)
BothSaved == \A p \in Instances : instances.proc[p].pc = "done"

\* the process whose save returned last, and its registry
LastInstance == instances.finished[Len(instances.finished)]
LastSaved == instances.proc[LastInstance].tools

\* the symlinks a registry implies: those its rebuild makes
RebuildOf(ts) == update_symlinks(ts, EmptyDir, EmptyDir, files, NoFault)

\* the disk is as the save of registry ts leaves it
StateOfSave(ts) ==
    /\ cfgFile = YamlFile(ConfigData(ts))
    /\ startup_dir = RebuildOf(ts).startup
    /\ tool_dir = RebuildOf(ts).tool

\* whichever of the two saves counts as the last one (the one that wrote the
\* config file last, or the one that returned last), the disk is as that
\* save leaves it
C10_LastSaveWins ==
    BothSaved => \E p \in Instances : StateOfSave(instances.proc[p].tools)

\* C10 as amended: the same when the two saves do not overlap, that is when
\* one process returns from save_config before the other opens the config
\* file.
C10_LastSaveWinsInTurn ==
    (BothSaved /\ ~ instances.overlap) => StateOfSave(LastSaved)

\* two saves in turn; the second removed the symlink the first had made
C10_InTurnWitness ==
    /\ BothSaved /\ ~ instances.overlap
    /\ instances.proc[1].tools # instances.proc[2].tools
    /\ \E p \in Instances :
         /\ p # LastInstance
         /\ \E i \in DOMAIN instances.proc[p].tools :
              LET t == instances.proc[p].tools[i]
              IN  /\ t.enabled /\ t.alias # DotDot /\ Unlinked(t)
    /\ \E i \in DOMAIN LastSaved : Linked(LastSaved[i])

(***************************************************************************)
(* C11.  Starting tmng on a config file that exists but cannot be read     *)
(* (the YAML parser refuses it, or it holds no dictionary, or a record     *)
(* lacks a required key) does not fail: the error is printed, the registry *)
(* of the process is empty, the file is rewritten as the default empty     *)
(* registry, and the process goes on to its command.                       *)
(***************************************************************************)
LoadErrorLogged(console) ==
    \E k \in DOMAIN console :
        /\ console[k].level = "error"
        /\ console[k].what \in {"loading config",
                               "unexpected error loading config"}

DefaultFile == YamlFile([version |-> "1.0", tools |-> <<>>])

C11_UnreadableConfigRecovered ==
    [][(mode = "off" /\ Unloadable(cfgFile)) =>
          /\ LoadErrorLogged(last'.console)
          /\ cfgFile' = DefaultFile
          /\ last'.op = "load_default" => (mode' \in {"list", "add"}
                                           /\ tools' = <<>>)
          /\ last'.op \in {"load_default", "update_shell"}]_vars

\* a process that started on an unreadable file and is at its command
C11_RecoveredWitness ==
    /\ mode \in {"list", "add"}
    /\ last.op = "load_default"
    /\ LoadErrorLogged(last.console)
    /\ tools = <<>>
    /\ cfgFile = DefaultFile

(***************************************************************************)
(* C12.  Starting tmng where the config file does not exist gives an empty *)
(* registry and creates the file, holding version "1.0" and an empty tools *)
(* list.                                                                   *)
(***************************************************************************)
NotFoundLogged(console) ==
    \E k \in DOMAIN console :
        console[k].level = "warning" /\ console[k].what = "config not found"

C12_AbsentConfigCreated ==
    [][(mode = "off" /\ cfgFile.kind = "absent") =>
          /\ cfgFile'.kind = "yaml"
          /\ cfgFile'.data.version = "1.0"
          /\ cfgFile'.data.tools = <<>>
          /\ NotFoundLogged(last'.console)
          /\ mode' # "off" => tools' = <<>>]_vars

\* a process that started without a config file and is at its command
C12_CreatedWitness ==
    /\ mode \in {"list", "add"}
    /\ last.op = "load_default"
    /\ NotFoundLogged(last.console)
    /\ tools = <<>>
    /\ cfgFile = DefaultFile

(***************************************************************************)
(* C20.  A record of the config file that leaves out optional keys loads   *)
(* with the defaults: no group, the empty path, the empty description,     *)
(* enabled.  The keys it has are loaded as written (the group text "None"  *)
(* being the written form of no group).                                    *)
(***************************************************************************)
LoadedWithDefaults(data, tool) ==
    /\ tool.name = data["name"]
    /\ tool.alias = data["alias"]
    /\ tool.category = data["category"]
    /\ tool.group = IF "group" \in DOMAIN data /\ data["group"] # NoneText
                    THEN Some(data["group"]) ELSE None
    /\ tool.path = IF "path" \in DOMAIN data THEN data["path"] ELSE ""
    /\ tool.description = IF "description" \in DOMAIN data
                          THEN data["description"] ELSE <<>>
    /\ tool.enabled = IF "enabled" \in DOMAIN data THEN data["enabled"]
                      ELSE TRUE

C20_MissingFieldsDefault ==
    [][(mode = "off" /\ mode' # "off" /\ cfgFile.kind = "yaml"
        /\ ~ Unloadable(cfgFile)) =>
          /\ Len(tools') = Len(cfgFile.data.tools)
          /\ \A i \in DOMAIN tools' :
                 LoadedWithDefaults(cfgFile.data.tools[i], tools'[i])]_vars

\* a process that loaded a record holding the required keys only
C20_DefaultsWitness ==
    /\ mode \in {"list", "add"}
    /\ last.op = "none"
    /\ cfgFile.kind = "yaml"
    /\ Len(tools) = Len(cfgFile.data.tools)
    /\ \E i \in DOMAIN tools :
          /\ DOMAIN cfgFile.data.tools[i] = RequiredKeys
          /\ tools[i].group = None /\ tools[i].path = ""
          /\ tools[i].description = <<>> /\ tools[i].enabled

(***************************************************************************)
(* C17.  A failure confined to one record never leaves the rebuild as an   *)
(* exception and never keeps the records after it from being processed:    *)
(* where every directory can be created, every save runs its symlink pass  *)
(* to the end and reports no error of the save.                            *)
(***************************************************************************)
Escaped(console) ==
    \E k \in DOMAIN console : console[k].what \in {"saving config", "uncaught"}

C17_RecordFailureConfined ==
    last.op \in RebuildOps =>
        /\ ~ Escaped(last.console)
        /\ last.steps # <<>> => "symlinks" \in Range(last.steps)

(***************************************************************************)
(* C16.  The shell fragment is written after the symlink pass of every     *)
(* save, whatever the pass met (no enabled record, skipped records,        *)
(* records whose link failed): every save that wrote the config file wrote *)
(* the fragment after the symlink pass.                                    *)
(***************************************************************************)
C16_FragmentAfterSymlinks ==
    (last.op \in SaveOps /\ "write" \in Range(last.steps)) =>
        /\ IsPrefix(<<"write", "symlinks", "shell_conf">>, last.steps)
        /\ shell_conf # None
        /\ TheValue(shell_conf).text = ShellConfText(ProjectRoot)

(***************************************************************************)
(* C14.  Shell init files are only appended to: no step creates an init    *)
(* file that does not exist, and every step leaves what an existing init   *)
(* file held as a prefix of what it holds afterwards.                      *)
(***************************************************************************)
OnlyAppended(file, file_after) ==
    IF file = None THEN file_after = None
    ELSE /\ file_after # None
         /\ IsPrefix(TheValue(file), TheValue(file_after))

C14_InitFilesOnlyAppended ==
    [][OnlyAppended(bashrc, bashrc') /\ OnlyAppended(zshrc, zshrc')]_vars

\* after a save: .bashrc holds its first text and the source line after it,
\* .zshrc still does not exist
C14_AppendedWitness ==
    /\ last.op \in SaveOps
    /\ "patch" \in Range(last.steps)
    /\ zshrc = None
    /\ \E t \in InitFileTexts :
          bashrc = Some(t \o SourceLine(ProjectRoot))

(***************************************************************************)
(* C15.  A group toggle on group g flips the enabled flag of every record  *)
(* whose group is g, each on its own, reports as toggled count the number  *)
(* of records in g, and leaves every other record as it was.               *)
(***************************************************************************)
GroupToggleStep ==
    mode = "list" /\ mode' = "list" /\ last'.op = "toggle_group"

C15_ToggleGroupFlipsAll ==
    [][GroupToggleStep =>
          LET g == last'.alias
              members == { i \in DOMAIN tools : tools[i].group = Some(g) }
          IN  /\ DOMAIN tools' = DOMAIN tools
              /\ \A i \in members :
                     /\ tools'[i].enabled = ~ tools[i].enabled
                     /\ [tools'[i] EXCEPT !.enabled = ~ @] = tools[i]
              /\ \A i \in DOMAIN tools \ members : tools'[i] = tools[i]
              /\ members # {}
              /\ last'.console[1].what = "toggled group"
              /\ last'.console[1].n = Cardinality(members)]_vars

\* after a toggle of a group of two records that were in different states
C15_TwoFlippedWitness ==
    /\ mode = "list"
    /\ last.op = "toggle_group"
    /\ last.console[1].n = 2
    /\ Len(tools) = 2
    /\ tools[1].group = Some(last.alias) /\ tools[2].group = Some(last.alias)
    /\ tools[1].enabled /\ ~ tools[2].enabled

(***************************************************************************)
(* C18.  Every record the add operation inserted has an alias that is not  *)
(* empty and holds none of the characters / \ : ? * " < > |, and so names  *)
(* one file of a managed directory: in a managed directory without links   *)
(* the name is free.                                                       *)
(***************************************************************************)
AliasWellFormed(alias) ==
    alias # <<>> /\ \A k \in DOMAIN alias : alias[k] \notin BadAliasChars

C18_AliasUsableAsFileName ==
    \A i \in DOMAIN tools :
        /\ AliasWellFormed(tools[i].alias)
        /\ EmptyDir[tools[i].alias] = NoEntry

\* the part of C18 about the characters alone
C18_AliasCharacters ==
    \A i \in DOMAIN tools : AliasWellFormed(tools[i].alias)

(***************************************************************************)
(* C13.  An interrupt delivered while a mutating operation waits at a      *)
(* prompt aborts the operation and writes nothing: the files are those of  *)
(* the last completed save, and the registry in memory had no unsaved      *)
(* change, it is the registry the config file holds.                       *)
(***************************************************************************)
InterruptStep == prompt'.interrupts = prompt.interrupts + 1

C13_InterruptWritesNothing ==
    [][InterruptStep =>
          /\ prompt.at \in PromptPositions
          /\ cfgFile = YamlFile(ConfigData(tools))
          /\ cfgFile' = cfgFile
          /\ startup_dir' = startup_dir /\ tool_dir' = tool_dir
          /\ shell_conf' = shell_conf
          /\ bashrc' = bashrc /\ zshrc' = zshrc
          /\ last' = last
          /\ prompt'.at \in PromptPositions
          /\ mode' # "off" => tools' = tools]_vars

\* tmng -l after a save and an interrupt inside a handler: back at the menu
\* with the registry the file holds
C13_InterruptedWitness ==
    /\ mode = "list"
    /\ prompt.at = "idle"
    /\ prompt.interrupts > 0
    /\ last.op \in ListOps
    /\ tools # <<>>
    /\ cfgFile = YamlFile(ConfigData(tools))

\* tmng -a after an interrupt inside _add_single_tool: no record was added
C13_InterruptedAddWitness ==
    /\ mode = "add"
    /\ prompt.op = "add"
    /\ prompt.at \in {"continue", "another"}
    /\ prompt.interrupts > 0
    /\ tools = <<>>
    /\ cfgFile = DefaultFile

(***************************************************************************)
(* C19.  The project root of the process: the parent directory of the      *)
(* config-file argument if one is given and that file exists; else the     *)
(* working directory if it holds tools.yaml; else the directory of the     *)
(* program if it holds tools.yaml; else the parent of that directory if it *)
(* holds tools.yaml; else the working directory.                           *)
(***************************************************************************)
ClaimedRoot(d) ==
    IF d.config_path # None /\ TheValue(d.config_path) \in d.existing
    THEN Parent(TheValue(d.config_path))
    ELSE IF Join(d.cwd, ConfigName) \in d.existing THEN d.cwd
    ELSE IF Join(ProgramDir(d.frozen), ConfigName) \in d.existing
    THEN ProgramDir(d.frozen)
    ELSE IF Join(Parent(ProgramDir(d.frozen)), ConfigName) \in d.existing
    THEN Parent(ProgramDir(d.frozen))
    ELSE d.cwd

C19_DiscoveryOrder ==
    discovery.at = "constructed" =>
        discovery.project_root = ClaimedRoot(discovery)

\* the function get_project_root, called with the argument, follows the order
C19_SearchOrder ==
    discovery.at = "searched" =>
        discovery.project_root = ClaimedRoot(discovery)

\* the order holds for every process started without --config
C19_OrderWithoutArgument ==
    (discovery.at = "constructed" /\ discovery.config_path = None) =>
        discovery.project_root = ClaimedRoot(discovery)

(***************************************************************************)
(* C21.  A rebuild removes no regular file of startup/ or tool/ except the *)
(* one in the slot of an enabled record of that directory's category whose *)
(* path exists: that file is replaced by the record's symlink.  Nothing in *)
(* bin/ is created or removed.                                             *)
(***************************************************************************)
\* the records that claim slot n of the directory of category c
Claimants(ts, c, n, fs) ==
    { i \in DOMAIN ts :
        /\ ts[i].enabled /\ ts[i].category = c /\ ts[i].alias = n
        /\ PathStrip(ts[i].path) # ""
        /\ PathExists(ExpandUser(PathStrip(ts[i].path)), fs) }

RebuildStep == last' # last /\ "symlinks" \in Range(last'.steps)

FileKeptOrReplaced(dir, dir_after, c, ts, fs, rebuilt) ==
    \A n \in DOMAIN dir :
        dir[n] = RegularFile =>
            /\ dir_after[n] # RegularFile =>
                  \E i \in Claimants(ts, c, n, fs) :
                      dir_after[n] = Symlink(LinkTarget(ts[i]))
            /\ (rebuilt /\ Claimants(ts, c, n, fs) # {}) =>
                  dir_after[n] # RegularFile

C21_OnlySymlinksCleared ==
    [][/\ FileKeptOrReplaced(startup_dir, startup_dir', Category_STARTUP,
                             Registry', files', RebuildStep)
       /\ FileKeptOrReplaced(tool_dir, tool_dir', Category_TOOL,
                             Registry', files', RebuildStep)
       /\ bin_dir' = bin_dir]_vars

\* after rebuilds: a regular file of tool/ is still there, one of startup/
\* was replaced by the link of a record, and bin/ is as it was
C21_FileKeptWitness ==
    /\ last.op \in SaveOps /\ "symlinks" \in Range(last.steps)
    /\ tool_dir[<<"a", "_">>] = RegularFile
    /\ \E i \in DOMAIN tools :
          /\ tools[i].category = Category_STARTUP
          /\ tools[i].alias = <<"a", "-">>
          /\ startup_dir[<<"a", "-">>] = Symlink(LinkTarget(tools[i]))
    /\ bin_dir = ForeignBin

(***************************************************************************)
(* C22.  As claimed: after the patcher ran for different fragment paths,   *)
(* an init file that exists holds one source line for each of them: a run  *)
(* for a path other than those of the earlier runs appends a second line.  *)
(***************************************************************************)
OneLinePerPath(file, roots) ==
    file # None =>
        \A root \in roots : Occurrences(TheValue(file), SourceLine(root)) = 1

C22_OneLinePerPath ==
    discovery.at = "patched" =>
        /\ OneLinePerPath(bashrc, discovery.used)
        /\ OneLinePerPath(zshrc, discovery.used)

\* no fragment path of roots occurs inside the fragment path of another
NoPathInsideAnother(roots) ==
    \A r1 \in roots, r2 \in roots :
        r1 # r2 => ~ Contains(ShellConfPath(r1), ShellConfPath(r2))

\* C22 as amended: the later run appends a source line for its path unless
\* that path already occurs in the text of the file; when none of the paths
\* occurs inside another, the file holds one source line for each.
C22_OneLinePerUnseenPath ==
    discovery.at = "patched" =>
        /\ \A file \in {bashrc, zshrc} :
              file # None =>
                  \A root \in discovery.used :
                      /\ Contains(TheValue(file), ShellConfPath(root))
                      /\ Occurrences(TheValue(file), SourceLine(root)) <= 1
        /\ NoPathInsideAnother(discovery.used) =>
              /\ OneLinePerPath(bashrc, discovery.used)
              /\ OneLinePerPath(zshrc, discovery.used)

\* .bashrc after runs for two roots: a source line for each
C22_TwoLinesWitness ==
    /\ discovery.at = "patched"
    /\ discovery.used = {ProjectRoot, <<"/opt", "/tmng">>}
    /\ bashrc # None
    /\ Occurrences(TheValue(bashrc), SourceLine(ProjectRoot)) = 1
    /\ Occurrences(TheValue(bashrc), SourceLine(<<"/opt", "/tmng">>)) = 1

\* .bashrc after a run for /home/u/srv/tmng and a run for /srv/tmng: the
\* second run appended nothing
C22_PathInsideWitness ==
    /\ discovery.at = "patched"
    /\ discovery.used = {ProjectRoot, <<"/home/u">> \o ProjectRoot}
    /\ bashrc # None
    /\ Occurrences(TheValue(bashrc), SourceLine(ProjectRoot)) = 0

(***************************************************************************)
(* C23.  The name of an added record is its alias with every character     *)
(* that is no letter or digit replaced by "_" if no record has that name,  *)
(* and else that name followed by "_k" for the smallest k >= 1 for which   *)
(* no record has the name; such a k is at most the number of records plus  *)
(* one, so the loop that looks for it ends.                                *)
(***************************************************************************)
BaseOf(alias, base) ==
    /\ Len(base) = Len(alias)
    /\ \A i \in DOMAIN alias :
          base[i] = IF alias[i] \in AlnumChars
                    THEN alias[i] ELSE "_"

Suffixed(base, k) == base \o <<"_">> \o ToDecimal(k)

C23_NameDerivation ==
    [][mode = "add" /\ mode' = "add" /\ Len(tools') = Len(tools) + 1 =>
          LET new == tools'[Len(tools')]
              names == { tools[i].name : i \in DOMAIN tools }
              base == [i \in DOMAIN new.alias |->
                          IF i <= Len(new.name) THEN new.name[i] ELSE "?"]
          IN  /\ BaseOf(new.alias, base)
              /\ IF base \notin names THEN new.name = base
                 ELSE \E k \in 1..(Len(tools) + 1) :
                        /\ new.name = Suffixed(base, k)
                        /\ Suffixed(base, k) \notin names
                        /\ \A j \in 1..(k - 1) : Suffixed(base, j) \in names]_vars

\* an added record that got the suffix _2: the base name and the name with
\* _1 were taken
C23_SecondSuffixWitness ==
    \E i \in DOMAIN tools :
        /\ tools[i].enabled
        /\ tools[i].alias = <<"a", "-">>
        /\ tools[i].name = <<"a", "_", "_", "2">>

(***************************************************************************)
(* C24.  A toggle of one tool flips the enabled flag of the record that    *)
(* was selected and changes nothing else of the registry: the number and   *)
(* the order of the records and every other field of every record stay,    *)
(* so a tool that is switched off is still registered.                     *)
(***************************************************************************)
ToolToggleStep ==
    /\ mode = "list"
    /\ mode' = "list"
    /\ last'.op = "toggle"
    /\ (last' # last \/ tools' # tools)

C24_ToggleFlipsOneFlag ==
    [][ToolToggleStep =>
          /\ Len(tools') = Len(tools)
          /\ \E j \in DOMAIN tools :
                /\ tools[j].alias = last'.alias
                /\ tools'[j].enabled = ~ tools[j].enabled
                /\ tools'[j] = [tools[j] EXCEPT !.enabled = tools'[j].enabled]
                /\ \A k \in DOMAIN tools : k # j => tools'[k] = tools[k]]_vars

\* a tool that was switched off is still in a registry of two
C24_DisabledStaysWitness ==
    /\ last.op = "toggle"
    /\ Len(tools) = 2
    /\ \E j \in DOMAIN tools :
          /\ tools[j].alias = last.alias
          /\ ~ tools[j].enabled
          /\ tools[3 - j].enabled

(***************************************************************************)
(* C25.  Delete removes the record with the selected name and nothing      *)
(* else; delete-group removes the records of the selected group, as many   *)
(* as it reports, and nothing else, so never a record without a group.     *)
(* The registry changes only after the confirm prompt was answered with    *)
(* yes, and the records that remain are unchanged and in their order.      *)
(***************************************************************************)
\* rest is ts without the records at the positions gone, in the order of ts
Without(ts, gone, rest) ==
    /\ Len(rest) = Len(ts) - Cardinality(gone)
    /\ \A i \in DOMAIN ts \ gone :
          rest[i - Cardinality({ k \in gone : k < i })] = ts[i]

DeleteRemovesSelected ==
    prompt.op = "delete" /\ tools' # tools =>
        LET gone == { i \in DOMAIN tools : tools[i].name = prompt.arg.name }
        IN  /\ prompt.arg.confirm
            /\ gone # {}
            /\ Without(tools, gone, tools')
            /\ C2_Uniqueness => Cardinality(gone) = 1

DeleteGroupRemovesGroup ==
    prompt.op = "delete_group" /\ tools' # tools =>
        LET gone == { i \in DOMAIN tools : tools[i].group = prompt.arg.group }
        IN  /\ prompt.arg.confirm
            /\ prompt.arg.group # None
            /\ Without(tools, gone, tools')
            /\ prompt.arg.count = Cardinality(gone)

DeleteGroupReportsCount ==
    prompt.op = "delete_group" /\ last' # last =>
        /\ last'.console # <<>>
        /\ last'.console[Len(last'.console)].what = "deleted group"
        /\ last'.console[Len(last'.console)].n = prompt.arg.count

DeclinedKeepsRegistry ==
    prompt.op \in {"delete", "delete_group"} /\ ~ prompt.arg.confirm =>
        /\ tools' = tools \/ mode' = "off"
        /\ cfgFile' = cfgFile

C25_DeleteRemovesSelected ==
    [][/\ DeleteRemovesSelected
       /\ DeleteGroupRemovesGroup
       /\ DeleteGroupReportsCount
       /\ DeclinedKeepsRegistry]_vars

\* delete-group removed the first and the last of three records and kept
\* the record without a group that was between them
C25_GroupDeletedWitness ==
    /\ last.op = "delete_group"
    /\ last.console[Len(last.console)].n = 2
    /\ Len(tools) = 1
    /\ tools[1].group = None
    /\ tools[1].name = <<"t", "2">>

\* delete removed the second of three records
C25_ToolDeletedWitness ==
    /\ last.op = "delete"
    /\ Len(tools) = 2
    /\ tools[1].name = <<"t", "1">>
    /\ tools[2].name = <<"t", "3">>

(***************************************************************************)
(* C26.  The second of two toggles of the same tool, or of the same group, *)
(* with every save succeeding and the same files on disk, leaves the       *)
(* registry and the symlinks of startup/ and tool/ as they were before the *)
(* first of the two.                                                       *)
(***************************************************************************)
SecondToggleStep == discovery'.at = "toggled" /\ discovery'.n = 2 /\ discovery' # discovery

RestoredAfterSecond ==
    /\ tools' = discovery'.before.tools
    /\ Links(startup_dir') = Links(discovery'.before.startup)
    /\ Links(tool_dir') = Links(discovery'.before.tool)

C26_ToggleTwiceRestores ==
    [][SecondToggleStep => RestoredAfterSecond]_vars

(***************************************************************************)
(* C26 as it holds: the same, if before the first toggle the symlinks were *)
(* those a rebuild of the registry makes (the state a save or an explicit  *)
(* update leaves while the files on disk stay); the registry is restored   *)
(* in every case.                                                          *)
(***************************************************************************)
C26_ToggleTwiceRestoresSettled ==
    [][SecondToggleStep =>
          /\ tools' = discovery'.before.tools
          /\ discovery'.settled => RestoredAfterSecond]_vars

\* two toggles of a tool that was linked brought its symlink back
C26_RestoredLinkWitness ==
    /\ discovery.at = "toggled"
    /\ discovery.n = 2
    /\ discovery.settled
    /\ discovery.after = Registered
    /\ \E i \in DOMAIN tools :
          /\ tools[i].name = discovery.what
          /\ tools[i].enabled
          /\ Linked(tools[i])

\* two toggles started where an enabled tool had no symlink, its file
\* having come back after the last rebuild
C26_UnsettledWitness ==
    /\ discovery.at = "toggled"
    /\ discovery.n = 2
    /\ ~ discovery.settled
    /\ Links(tool_dir) # Links(discovery.before.tool)

(***************************************************************************)
(* C27.  A config file that the YAML parser accepts but in which a record  *)
(* lacks name, alias or category, or whose top level is not a dictionary   *)
(* with a list of tools, is treated like a file the parser refuses: the    *)
(* error is printed, the registry of the process is empty and the file is  *)
(* rewritten as the default empty registry, whatever other records it      *)
(* held.                                                                   *)
(***************************************************************************)
HasBadRecord(file) ==
    /\ file.kind = "yaml"
    /\ \E i \in DOMAIN file.data.tools :
          ~ ({"name", "alias", "category"} \subseteq DOMAIN file.data.tools[i])

NoMapWithTools(file) == file.kind \in {"scalar", "empty_list", "no_tools"}

TreatedAsUnparsable ==
    /\ LoadErrorLogged(last'.console)
    /\ cfgFile' = DefaultFile
    /\ mode' # "off" => tools' = <<>>

C27_MalformedLikeUnparsable ==
    [][mode = "off" /\ (HasBadRecord(cfgFile) \/ NoMapWithTools(cfgFile)) =>
          TreatedAsUnparsable]_vars

(***************************************************************************)
(* C27 as it holds: the same for a record that lacks a required key and    *)
(* for a top level that is neither a dictionary nor empty.  A top level    *)
(* that is an empty value, or a dictionary without the key tools, is read  *)
(* as an empty registry: no error is printed and load leaves the file as   *)
(* it is.                                                                  *)
(***************************************************************************)
C27_BadRecordLikeUnparsable ==
    [][/\ mode = "off" /\ (HasBadRecord(cfgFile) \/ cfgFile.kind = "scalar") =>
             TreatedAsUnparsable
       /\ mode = "off" /\ cfgFile.kind \in {"empty_list", "no_tools"} =>
             /\ mode' # "off" => tools' = <<>>
             /\ last'.op # "update_shell" =>
                   (cfgFile' = cfgFile /\ last' = last)]_vars

\* a process that started on a file in which a record had no alias
C27_RecordLostWitness ==
    /\ mode \in {"list", "add"}
    /\ tools = <<>>
    /\ cfgFile = DefaultFile
    /\ \E k \in DOMAIN last.console :
          /\ last.console[k].what = "unexpected error loading config"
          /\ last.console[k].path = "alias"

\* a process that started on a dictionary without tools: the file is kept
C27_NoToolsKeptWitness ==
    /\ mode \in {"list", "add"}
    /\ tools = <<>>
    /\ cfgFile = NoToolsFile

(***************************************************************************)
(* C28.  An add attempt that is rejected because the alias is taken, that  *)
(* is declined at "Add this tool?", or that is cancelled, changes neither  *)
(* the registry nor the config file nor the managed directories, and no    *)
(* save runs: the record is appended only after the alias was found free   *)
(* and the confirm prompt was answered with yes.                           *)
(***************************************************************************)
AddWaiting == prompt.op = "add" /\ prompt.at \notin {"mutate", "save"}

NothingWritten ==
    /\ cfgFile' = cfgFile
    /\ startup_dir' = startup_dir /\ tool_dir' = tool_dir
    /\ bin_dir' = bin_dir
    /\ shell_conf' = shell_conf
    /\ bashrc' = bashrc /\ zshrc' = zshrc
    /\ last' = last

C28_FailedAddWritesNothing ==
    [][/\ AddWaiting => (NothingWritten /\ (mode' # "off" => tools' = tools))
       /\ prompt.op = "add" /\ prompt'.at = "mutate" =>
             /\ prompt.at = "confirm"
             /\ prompt'.arg.confirm
             /\ ~ AliasTaken(tools, prompt.arg.tool[1].alias)
       /\ prompt.op = "add" /\ tools' # tools /\ mode' # "off" =>
             /\ prompt.arg.confirm
             /\ tools' = Append(tools, prompt.arg.tool[1])]_vars

\* an add of an alias that is taken was rejected: the process waits at
\* "Press Enter" and the file holds the one record of the registry
C28_RejectedWitness ==
    /\ prompt.op = "add"
    /\ prompt.at = "pause"
    /\ Len(tools) = 1
    /\ cfgFile = YamlFile(ConfigData(tools))
    /\ last.op = "add"

\* an add was declined or cancelled after one was made: back at "Add
\* another tool?" with the registry of the file
C28_DeclinedWitness ==
    /\ prompt.op = "add"
    /\ prompt.at \in {"continue", "another"}
    /\ prompt.interrupts = 0
    /\ tools = <<>>
    /\ cfgFile = DefaultFile
    /\ last.op = "load_default"

(***************************************************************************)
(* C29.  Starting tmng on a config file that exists and is well formed     *)
(* writes nothing and rebuilds nothing: the config file, the entries of    *)
(* startup/ and tool/, shell.conf and the shell init files are as before,  *)
(* and the registry of the process is the one the file holds.  The         *)
(* symlinks are brought in line with that registry by the first save or    *)
(* explicit update after it, not by the load.                              *)
(***************************************************************************)
WellFormed(file) == file.kind = "yaml" /\ ~ Unloadable(file)

StartStep == mode = "off" /\ mode' # "off"

C29_LoadWritesNothing ==
    [][StartStep /\ WellFormed(cfgFile) =>
          /\ cfgFile' = cfgFile
          /\ startup_dir' = startup_dir /\ tool_dir' = tool_dir
          /\ shell_conf' = shell_conf
          /\ bashrc' = bashrc /\ zshrc' = zshrc
          /\ last' = last
          /\ Len(tools') = Len(cfgFile.data.tools)
          /\ \A i \in DOMAIN tools' :
                /\ tools'[i].name = cfgFile.data.tools[i].name
                /\ tools'[i].alias = cfgFile.data.tools[i].alias]_vars

\* a process that loaded an enabled record whose file exists and has saved
\* nothing yet: the record has no symlink
C29_LoadedUnlinkedWitness ==
    /\ mode \in {"list", "add"}
    /\ last.op = "none"
    /\ cfgFile.kind = "yaml"
    /\ \E i \in DOMAIN tools :
          /\ tools[i].enabled
          /\ tools[i].alias # DotDot
          /\ PathExists(ExpandUser(PathStrip(tools[i].path)), files)
          /\ Unlinked(tools[i])

\* the same registry after the first save of the process: the record is
\* linked
C29_LinkedAfterSaveWitness ==
    /\ mode = "list"
    /\ last.op = "toggle"
    /\ \E i \in DOMAIN tools :
          /\ tools[i] = from_dict(PlainRecord)
          /\ Linked(tools[i])

====
